---- MODULE Spec2Model ----
(***************************************************************************)
(* Message service: conversations, messages and the append pipeline       *)
(* (app/api/routes.py and the entities/repositories it drives).           *)
(*                                                                         *)
(* Every request handler is a process.  A handler step is the code        *)
(* between two awaits on an external collaborator (the relational store,  *)
(* the usage service, the redis queue); other requests may run between    *)
(* two steps of a handler.                                                 *)
(***************************************************************************)
EXTENDS Integers, Sequences, FiniteSets, TLC

\* ---- bounds of the model -------------------------------------------------
NumProcs == 2
MaxConvs == 1
MaxMsgs == 2
NumTeens == 1
MaxClock == 2
MaxCalls == 3

\* ---- program constants ---------------------------------------------------
DefaultLimit == 100
TitleMax == 200
DefaultPage == 100
DefaultTeenPage == 50

Procs == 1..NumProcs
ConvIds == 1..MaxConvs
Teens == {10 + i : i \in 1..NumTeens}

NoTime == -1
DefaultTitle == <<"N", "e", "w", " ", "C", "o", "n", "v", "e", "r", "s", "a", "t", "i", "o", "n">>

\* request inputs
RoleInputs == {"user", "assistant", "system", "bot"}
StatusInputs == {"active", "archived", "deleted"}
SentInputs == {99, 100}

VARIABLES
    conversations,         \* the rows of table conversations
    messages,              \* the rows of table messages
    classification_queue,  \* the redis list topic_classification_queue
    usage_events,          \* what the usage service has accepted
    clock,                 \* datetime.utcnow()
    uuid,                  \* how many ids uuid4 has handed out
    req,                   \* per request task: the frame of its handler
    last                   \* the frame of the handler that returned last, with its response

vars == <<conversations, messages, classification_queue, usage_events, clock, uuid, req, last>>

\* ---- time ------------------------------------------------------------------
utcnow == clock

\* ---- Conversation entity ---------------------------------------------------
NoConv == [id |-> 0]

Conversation(id, teen_id, title) ==
    [id |-> id,
     teen_id |-> teen_id,
     title |-> IF title = << >> THEN DefaultTitle ELSE title,
     status |-> "active",
     created_at |-> utcnow,
     updated_at |-> utcnow,
     last_message_at |-> NoTime,
     message_count |-> 0]

\* faulty variant: last_message_at is left alone
add_message_NoStamp(c) ==
    [c EXCEPT !.message_count = c.message_count + 1,
              !.updated_at = utcnow]

\* faulty variant: the counter is raised by two
add_message_Double(c) ==
    [c EXCEPT !.message_count = c.message_count + 2,
              !.last_message_at = utcnow,
              !.updated_at = utcnow]

\* faulty variant: last_message_at keeps the time of the first message
add_message_KeepFirst(c) ==
    [c EXCEPT !.message_count = c.message_count + 1,
              !.last_message_at = IF c.last_message_at = NoTime THEN utcnow ELSE c.last_message_at,
              !.updated_at = utcnow]

add_message(c) ==
    [c EXCEPT !.message_count = c.message_count + 1,
              !.last_message_at = utcnow,
              !.updated_at = utcnow]

\* faulty variant: an archived conversation still takes messages
can_add_messages_NotDeleted(c) == c.status # "deleted"

can_add_messages(c) == c.status = "active"

\* the characters str.strip() removes (those the inputs use)
Whitespace == {" ", "\t", "\n"}

RECURSIVE lstrip(_)
lstrip(s) == IF s # << >> /\ Head(s) \in Whitespace THEN lstrip(Tail(s)) ELSE s

RECURSIVE rstrip(_)
rstrip(s) == IF s # << >> /\ s[Len(s)] \in Whitespace THEN rstrip(SubSeq(s, 1, Len(s) - 1)) ELSE s

strip(s) == rstrip(lstrip(s))

\* faulty variant: the title is not cut
Truncate_Off(s, n) == s

Truncate(s, n) == IF Len(s) > n THEN SubSeq(s, 1, n) ELSE s

\* the mutators that can raise return [error, c]: a non-empty error is the
\* message of the ValueError, and c is then the entity as the raise left it
set_title(c, title) ==
    IF title = << >> \/ Len(strip(title)) = 0
    THEN [error |-> "Title cannot be empty", c |-> c]
    ELSE [error |-> "",
          c |-> [c EXCEPT !.title = Truncate(strip(title), TitleMax), !.updated_at = utcnow]]

\* faulty variant: a refused archive still touches updated_at
archive_Touch(c) ==
    IF c.status = "deleted"
    THEN [error |-> "Cannot archive a deleted conversation", c |-> [c EXCEPT !.updated_at = utcnow]]
    ELSE [error |-> "", c |-> [c EXCEPT !.status = "archived", !.updated_at = utcnow]]

archive(c) ==
    IF c.status = "deleted"
    THEN [error |-> "Cannot archive a deleted conversation", c |-> c]
    ELSE [error |-> "", c |-> [c EXCEPT !.status = "archived", !.updated_at = utcnow]]

\* faulty variant: only an archived conversation can be restored
restore_OnlyArchived(c) ==
    IF c.status # "archived"
    THEN [error |-> "Cannot restore a deleted conversation", c |-> c]
    ELSE [error |-> "", c |-> [c EXCEPT !.status = "active", !.updated_at = utcnow]]

restore(c) ==
    IF c.status = "deleted"
    THEN [error |-> "Cannot restore a deleted conversation", c |-> c]
    ELSE [error |-> "", c |-> [c EXCEPT !.status = "active", !.updated_at = utcnow]]

\* faulty variant: the soft delete leaves updated_at alone
delete_KeepStamp(c) == [c EXCEPT !.status = "deleted"]

delete(c) == [c EXCEPT !.status = "deleted", !.updated_at = utcnow]

\* ---- Message entity --------------------------------------------------------
NoMsg == [id |-> 0]

MessageRoles == {"user", "assistant", "system"}

TopicTiers == {"tier_1", "tier_2", "tier_3", "tier_4"}

NoTier == "none"

\* safety_flags is a dict from flag names to values; the values are kept as strings
NoFlags == [k \in {} |-> ""]

Truthy(v) == v \notin {"False", "", "{}"}

DictGet(d, k, default) == IF k \in DOMAIN d THEN d[k] ELSE default

DictSet(d, k, v) == [x \in DOMAIN d \cup {k} |-> IF x = k THEN v ELSE d[x]]

\* the constructor as the pipeline calls it: no safety_flags, created_at now
Message(id, conversation_id, role, content) ==
    [id |-> id,
     conversation_id |-> conversation_id,
     role |-> role,
     content |-> content,
     topic_tier |-> NoTier,
     topic_categories |-> << >>,
     safety_flags |-> NoFlags,
     created_at |-> utcnow]

is_safe(m) ==
    IF DOMAIN m.safety_flags = {} THEN TRUE
    ELSE IF Truthy(DictGet(m.safety_flags, "blocked", "False")) THEN FALSE
    ELSE IF m.topic_tier = "tier_4" THEN FALSE
    ELSE TRUE

\* faulty variant: a flagged message never asks for approval
needs_approval_Unflagged(m) ==
    m.topic_tier \in {"tier_2", "tier_3"} /\ m.safety_flags = NoFlags

needs_approval(m) == m.topic_tier \in {"tier_2", "tier_3"}

set_topic_classification(m, tier, categories) ==
    [m EXCEPT !.topic_tier = tier, !.topic_categories = categories]

add_safety_flag(m, flag_type, details) ==
    [m EXCEPT !.safety_flags = DictSet(m.safety_flags, flag_type, details)]

\* faulty variant: the tier is left as it was
mark_as_blocked_KeepTier(m, reason) ==
    [m EXCEPT !.safety_flags = DictSet(DictSet(m.safety_flags, "blocked", "True"),
                                       "block_reason", reason)]

mark_as_blocked(m, reason) ==
    [m EXCEPT !.safety_flags = DictSet(DictSet(m.safety_flags, "blocked", "True"),
                                       "block_reason", reason),
              !.topic_tier = "tier_4"]

\* ---- the relational store ----------------------------------------------------
ConvExists(cid) == \E c \in conversations : c.id = cid

get_by_id(cid) == IF ConvExists(cid) THEN CHOOSE c \in conversations : c.id = cid ELSE NoConv

count_by_conversation_id(cid) == Cardinality({m \in messages : m.conversation_id = cid})

\* faulty variant: the rows come in the order of their insertion
OrderByCreatedAt_Inserted(S) ==
    {seq \in [1..Cardinality(S) -> S] :
        \A i, j \in 1..Cardinality(S) : i < j => seq[i].id < seq[j].id}

\* the orders a query may return the rows S in under ORDER BY created_at ASC: rows
\* with equal created_at come in any order
OrderByCreatedAt(S) ==
    {seq \in [1..Cardinality(S) -> S] :
        \A i, j \in 1..Cardinality(S) :
           i < j => (seq[i] # seq[j] /\ seq[i].created_at <= seq[j].created_at)}

\* LIMIT limit OFFSET offset of an ordered result
LimitOffset(seq, limit, offset) ==
    SubSeq(seq, offset + 1, IF offset + limit < Len(seq) THEN offset + limit ELSE Len(seq))

\* faulty variant: DESC with the database's default place for NULL, which is first
NotAfter_NullsFirst(a, b) ==
    IF a.last_message_at = NoTime /\ b.last_message_at = NoTime THEN a.created_at >= b.created_at
    ELSE IF a.last_message_at = NoTime THEN TRUE
    ELSE IF b.last_message_at = NoTime THEN FALSE
    ELSE IF a.last_message_at = b.last_message_at THEN a.created_at >= b.created_at
    ELSE a.last_message_at > b.last_message_at

\* a sorts before b, or level with it, under
\* ORDER BY last_message_at DESC NULLS LAST, created_at DESC
NotAfter(a, b) ==
    IF a.last_message_at = NoTime /\ b.last_message_at = NoTime THEN a.created_at >= b.created_at
    ELSE IF a.last_message_at = NoTime THEN FALSE
    ELSE IF b.last_message_at = NoTime THEN TRUE
    ELSE IF a.last_message_at = b.last_message_at THEN a.created_at >= b.created_at
    ELSE a.last_message_at > b.last_message_at

\* the orders the query may return the rows S in: rows level in both keys come in
\* any order
OrderByLastMessageAt(S) ==
    {seq \in [1..Cardinality(S) -> S] :
        \A i, j \in 1..Cardinality(S) : i < j => (seq[i] # seq[j] /\ NotAfter(seq[i], seq[j]))}

\* ConversationRepositoryImpl.get_by_teen_id: the lists the query may return;
\* status "" stands for None (no filter)
get_by_teen_id(teen_id, status, limit, offset) ==
    {LimitOffset(seq, limit, offset) :
        seq \in OrderByLastMessageAt({c \in conversations :
                                        /\ c.teen_id = teen_id
                                        /\ status # "" => c.status = status})}

\* MessageRepositoryImpl.get_by_conversation_id: the lists the query may return
get_by_conversation_id(conversation_id, limit, offset) ==
    {LimitOffset(seq, limit, offset) :
        seq \in OrderByCreatedAt({m \in messages : m.conversation_id = conversation_id})}

\* ConversationRepositoryImpl.update: every mutable column is overwritten
ConvUpdated(c) == {IF r.id = c.id THEN c ELSE r : r \in conversations}

\* ConversationRepositoryImpl.delete with the cascade to the messages
ConvDeleted(cid) == {r \in conversations : r.id # cid}

\* faulty variant: the message rows are left behind
MsgCascaded_Keep(cid) == messages

MsgCascaded(cid) == {m \in messages : m.conversation_id # cid}

\* ---- requests ------------------------------------------------------------------
NoData == [role |-> ""]

NoCheck == [allowed |-> TRUE, messages_sent |-> -1, messages_limit |-> -1]

NoResp == [status |-> 0, detail |-> "", args |-> << >>, body |-> [id |-> 0]]

\* a handler frame: the request, the handler's locals, the steps it has taken
Idle ==
    [op |-> "idle", pc |-> "idle", conversation_id |-> 0, request_data |-> NoData,
     conversation |-> NoConv, message |-> NoMsg, limit_check |-> NoCheck,
     trace |-> << >>, response |-> NoResp]

Ready(p) == req[p].pc = "idle"

Response(status, detail, args, body) ==
    [status |-> status, detail |-> detail, args |-> args, body |-> body]

HTTPException(status, detail) == Response(status, detail, << >>, [id |-> 0])

InternalServerError == HTTPException(500, "Internal server error")

\* the handler of process p, in frame f, returns (or raises) r
Return(p, f, r) ==
    /\ req' = [req EXCEPT ![p] = Idle]
    /\ last' = [f EXCEPT !.pc = "done", !.response = r]

\* the handler of process p goes on in frame f
Goto(p, f) ==
    /\ req' = [req EXCEPT ![p] = f]
    /\ UNCHANGED last

Step(f, name) == [f EXCEPT !.trace = Append(f.trace, name)]

Init ==
    /\ conversations = {}
    /\ messages = {}
    /\ classification_queue = << >>
    /\ usage_events = << >>
    /\ clock = 0
    /\ uuid = [conv |-> 0, msg |-> 0]
    /\ req = [p \in Procs |-> Idle]
    /\ last = Idle

\* ---- POST /conversations ------------------------------------------------------
create_conversation(p, data) ==
    /\ Ready(p)
    /\ uuid.conv < MaxConvs
    /\ LET conversation == Conversation(uuid.conv + 1, data.teen_id, data.title)
           f == [Idle EXCEPT !.op = "create_conversation", !.request_data = data,
                             !.conversation = conversation,
                             !.conversation_id = conversation.id]
       IN  /\ conversations' = conversations \cup {conversation}
           /\ uuid' = [uuid EXCEPT !.conv = uuid.conv + 1]
           /\ Return(p, Step(f, "create"), Response(201, "", << >>, conversation))
    /\ UNCHANGED <<messages, classification_queue, usage_events, clock>>

\* ---- DELETE /conversations/{id} -------------------------------------------------
delete_conversation(p, cid) ==
    /\ Ready(p)
    /\ LET f == [Idle EXCEPT !.op = "delete_conversation", !.conversation_id = cid]
       IN  IF ~ConvExists(cid)
           THEN /\ Return(p, f, HTTPException(404, "Conversation not found"))
                /\ UNCHANGED <<conversations, messages>>
           ELSE /\ conversations' = ConvDeleted(cid)
                /\ messages' = MsgCascaded(cid)
                /\ Return(p, Step(f, "delete"), Response(204, "", << >>, [id |-> 0]))
    /\ UNCHANGED <<classification_queue, usage_events, clock, uuid>>

\* ---- PATCH /conversations/{id} --------------------------------------------------
\* the in-memory part of the handler: set_title, then the status transition;
\* the first ValueError ends it
ApplyTitle(c, title) == IF title # << >> THEN set_title(c, title) ELSE [error |-> "", c |-> c]

ApplyStatus(c, status) ==
    IF status = "archived" THEN archive(c)
    ELSE IF status = "active" THEN restore(c)
    ELSE IF status = "deleted" THEN [error |-> "", c |-> delete(c)]
    ELSE [error |-> "", c |-> c]

ApplyPatch(c, data) ==
    LET t == ApplyTitle(c, data.title)
    IN  IF t.error # "" THEN t ELSE ApplyStatus(t.c, data.status)

\* faulty variant: the title is saved as soon as it is set, before the status is applied
update_conversation_load_SaveTitle(p, cid, data) ==
    /\ Ready(p)
    /\ LET f == [Idle EXCEPT !.op = "update_conversation", !.conversation_id = cid,
                             !.request_data = data]
           conversation == get_by_id(cid)
           titled == ApplyTitle(conversation, data.title)
           patched == ApplyPatch(conversation, data)
           g == Step([f EXCEPT !.conversation = patched.c], "load")
       IN  IF conversation = NoConv
           THEN /\ Return(p, f, HTTPException(404, "Conversation not found"))
                /\ UNCHANGED conversations
           ELSE IF patched.error # ""
           THEN /\ Return(p, g, HTTPException(400, patched.error))
                /\ conversations' = IF titled.error = "" THEN ConvUpdated(titled.c) ELSE conversations
           ELSE /\ Goto(p, [g EXCEPT !.pc = "update"])
                /\ UNCHANGED conversations
    /\ UNCHANGED <<messages, classification_queue, usage_events, clock, uuid>>

update_conversation_load(p, cid, data) ==
    /\ Ready(p)
    /\ LET f == [Idle EXCEPT !.op = "update_conversation", !.conversation_id = cid,
                             !.request_data = data]
           conversation == get_by_id(cid)
           patched == ApplyPatch(conversation, data)
           g == Step([f EXCEPT !.conversation = patched.c], "load")
       IN  IF conversation = NoConv
           THEN Return(p, f, HTTPException(404, "Conversation not found"))
           ELSE IF patched.error # ""
           THEN Return(p, g, HTTPException(400, patched.error))
           ELSE Goto(p, [g EXCEPT !.pc = "update"])
    /\ UNCHANGED <<conversations, messages, classification_queue, usage_events, clock, uuid>>

\* faulty variant: a conversation marked deleted is removed with its messages
update_conversation_update_HardDelete(p, ok) ==
    /\ req[p].op = "update_conversation"
    /\ req[p].pc = "update"
    /\ LET f == req[p]
           conversation == f.conversation
       IN  IF ~ok
           THEN /\ Return(p, f, InternalServerError)
                /\ UNCHANGED <<conversations, messages>>
           ELSE IF ~ConvExists(conversation.id)
           THEN /\ Return(p, f, Response(400, "Conversation not found: ",
                                         <<conversation.id>>, [id |-> 0]))
                /\ UNCHANGED <<conversations, messages>>
           ELSE /\ conversations' = IF conversation.status = "deleted"
                                    THEN ConvDeleted(conversation.id)
                                    ELSE ConvUpdated(conversation)
                /\ messages' = IF conversation.status = "deleted"
                               THEN MsgCascaded(conversation.id)
                               ELSE messages
                /\ Return(p, Step(f, "update"), Response(200, "", << >>, conversation))
    /\ UNCHANGED <<classification_queue, usage_events, clock, uuid>>

\* conv_repo.update(conversation): the ValueError of a missing row is answered 400
update_conversation_update(p, ok) ==
    /\ req[p].op = "update_conversation"
    /\ req[p].pc = "update"
    /\ LET f == req[p]
           conversation == f.conversation
       IN  IF ~ok
           THEN /\ Return(p, f, InternalServerError)
                /\ UNCHANGED conversations
           ELSE IF ~ConvExists(conversation.id)
           THEN /\ Return(p, f, Response(400, "Conversation not found: ",
                                         <<conversation.id>>, [id |-> 0]))
                /\ UNCHANGED conversations
           ELSE /\ conversations' = ConvUpdated(conversation)
                /\ Return(p, Step(f, "update"), Response(200, "", << >>, conversation))
    /\ UNCHANGED <<messages, classification_queue, usage_events, clock, uuid>>

\* ---- the Limit Guard ----------------------------------------------------------------
\* what the usage service does to GET /api/v1/usage/today: the transport raises
\* (or times out), or it answers status_code with a body carrying messages_sent
UsageAnswers ==
    {[kind |-> "error", status_code |-> 0, messages_sent |-> 0]}
        \cup {[kind |-> "response", status_code |-> 200, messages_sent |-> n] : n \in SentInputs}
        \cup {[kind |-> "response", status_code |-> 500, messages_sent |-> 0]}

\* faulty variant: a transport failure closes the gate
check_daily_message_limit_FailClosed(answer) ==
    IF answer.kind = "error"
    THEN [allowed |-> FALSE, messages_sent |-> 0, messages_limit |-> 100]
    ELSE LET messages_sent == IF answer.status_code = 200 THEN answer.messages_sent ELSE 0
         IN  [allowed |-> messages_sent < DefaultLimit,
              messages_sent |-> messages_sent,
              messages_limit |-> DefaultLimit]

\* faulty variant: the message that reaches the limit is still allowed
check_daily_message_limit_Inclusive(answer) ==
    IF answer.kind = "error"
    THEN [allowed |-> TRUE, messages_sent |-> 0, messages_limit |-> 100]
    ELSE LET messages_sent == IF answer.status_code = 200 THEN answer.messages_sent ELSE 0
             messages_limit == DefaultLimit
         IN  [allowed |-> messages_sent <= messages_limit,
              messages_sent |-> messages_sent,
              messages_limit |-> messages_limit]

\* the pipeline passes no teen_age, so the age-group limit is never fetched
check_daily_message_limit(answer) ==
    IF answer.kind = "error"
    THEN [allowed |-> TRUE, messages_sent |-> 0, messages_limit |-> 100]
    ELSE LET messages_sent == IF answer.status_code = 200 THEN answer.messages_sent ELSE 0
             messages_limit == DefaultLimit
         IN  [allowed |-> messages_sent < messages_limit,
              messages_sent |-> messages_sent,
              messages_limit |-> messages_limit]

\* ---- POST /conversations/{id}/messages -----------------------------------------------
\* message ids not yet handed out cover the appends in flight
MsgIdsLeft ==
    MaxMsgs - uuid.msg
        - Cardinality({q \in Procs : req[q].op = "create_message" /\ req[q].pc \in {"guard", "persist"}})

\* an optional integer of a request body: << >> when absent, <<n>> when given
NoInt == << >>

\* an optional string of a request body: << >> when absent, <<s>> when given
NoStr == << >>

\* Python's "x or default" on an optional integer: None and 0 give the default
OrInt(x, default) == IF x = NoInt \/ x[1] = 0 THEN default ELSE x[1]

\* Python's "x or default" on an optional string: None and "" give the default
OrStr(x, default) == IF x = NoStr \/ x[1] = "" THEN default ELSE x[1]

\* faulty variant: topic_tier is taken without its range constraint
CreateMessageRequest_AnyTier(data) == data.content # ""

\* the checks pydantic makes on the body before the handler is entered:
\* content has min_length 1, topic_tier is None or an integer with 1 <= n <= 4
CreateMessageRequest(data) ==
    /\ data.content # ""
    /\ data.topic_tier # NoInt => (data.topic_tier[1] >= 1 /\ data.topic_tier[1] <= 4)
    /\ \A n \in {data.input_tokens, data.output_tokens, data.total_tokens} :
          n # NoInt => n[1] >= 0

\* FastAPI's answer to a body that fails validation
RequestValidationError == HTTPException(422, "Unprocessable Entity")

\* tier_map.get(request_data.topic_tier), None when the key is not in the map
tier_map(topic_tier) ==
    IF topic_tier = NoInt THEN NoTier
    ELSE IF topic_tier[1] = 1 THEN "tier_1"
    ELSE IF topic_tier[1] = 2 THEN "tier_2"
    ELSE IF topic_tier[1] = 3 THEN "tier_3"
    ELSE IF topic_tier[1] = 4 THEN "tier_4"
    ELSE NoTier

\* faulty variant: the Limit Guard is asked whatever the role
create_message_load_GuardAll(p, cid, data) ==
    /\ Ready(p)
    /\ MsgIdsLeft > 0
    /\ LET f == [Idle EXCEPT !.op = "create_message", !.conversation_id = cid,
                             !.request_data = data]
           conversation == get_by_id(cid)
           g == Step([f EXCEPT !.conversation = conversation], "load")
       IN  IF conversation = NoConv
           THEN Return(p, f, HTTPException(404, "Conversation not found"))
           ELSE IF ~can_add_messages(conversation)
           THEN Return(p, g, HTTPException(400, "Cannot add messages to this conversation"))
           ELSE Goto(p, [g EXCEPT !.pc = "guard"])
    /\ UNCHANGED <<conversations, messages, classification_queue, usage_events, clock, uuid>>

create_message_load(p, cid, data) ==
    /\ Ready(p)
    /\ MsgIdsLeft > 0
    /\ LET f == [Idle EXCEPT !.op = "create_message", !.conversation_id = cid,
                             !.request_data = data]
           conversation == get_by_id(cid)
           g == Step([f EXCEPT !.conversation = conversation], "load")
       IN  IF ~CreateMessageRequest(data)
           THEN Return(p, f, RequestValidationError)
           ELSE IF conversation = NoConv
           THEN Return(p, f, HTTPException(404, "Conversation not found"))
           ELSE IF ~can_add_messages(conversation)
           THEN Return(p, g, HTTPException(400, "Cannot add messages to this conversation"))
           ELSE Goto(p, [g EXCEPT !.pc = IF data.role = "user" THEN "guard" ELSE "persist"])
    /\ UNCHANGED <<conversations, messages, classification_queue, usage_events, clock, uuid>>

\* faulty variant: a denied check is logged and the append goes on
create_message_guard_Ignore(p, answer) ==
    /\ req[p].op = "create_message"
    /\ req[p].pc = "guard"
    /\ LET limit_check == check_daily_message_limit(answer)
           f == Step([req[p] EXCEPT !.limit_check = limit_check],
                     IF answer.kind = "error" THEN "guard_error" ELSE "guard")
       IN  Goto(p, [f EXCEPT !.pc = "persist"])
    /\ UNCHANGED <<conversations, messages, classification_queue, usage_events, clock, uuid>>

create_message_guard(p, answer) ==
    /\ req[p].op = "create_message"
    /\ req[p].pc = "guard"
    /\ LET limit_check == check_daily_message_limit(answer)
           f == Step([req[p] EXCEPT !.limit_check = limit_check],
                     IF answer.kind = "error" THEN "guard_error" ELSE "guard")
       IN  IF ~limit_check.allowed
           THEN Return(p, f, Response(429, "Daily message limit reached",
                                      <<limit_check.messages_sent, limit_check.messages_limit>>,
                                      [id |-> 0]))
           ELSE Goto(p, [f EXCEPT !.pc = "persist"])
    /\ UNCHANGED <<conversations, messages, classification_queue, usage_events, clock, uuid>>

\* faulty variant: a failed insert is swallowed and the handler goes on to the update
create_message_persist_Swallow(p, ok) ==
    /\ req[p].op = "create_message"
    /\ req[p].pc = "persist"
    /\ LET f == req[p]
           data == f.request_data
           message == [Message(uuid.msg + 1, f.conversation_id, data.role, data.content)
                          EXCEPT !.topic_tier = tier_map(data.topic_tier)]
       IN  IF data.role \notin MessageRoles
           THEN /\ Return(p, f, Response(400, "is not a valid MessageRole", <<data.role>>, [id |-> 0]))
                /\ UNCHANGED <<messages, uuid>>
           ELSE IF ok /\ ConvExists(f.conversation_id)
           THEN /\ messages' = messages \cup {message}
                /\ uuid' = [uuid EXCEPT !.msg = uuid.msg + 1]
                /\ Goto(p, Step([f EXCEPT !.pc = "update", !.message = message], "persist"))
           ELSE /\ Goto(p, [f EXCEPT !.pc = "update"])
                /\ UNCHANGED <<messages, uuid>>
    /\ UNCHANGED <<conversations, classification_queue, usage_events, clock>>

\* faulty variant: the insert does not look for the conversation row
create_message_persist_NoForeignKey(p, ok) ==
    /\ req[p].op = "create_message"
    /\ req[p].pc = "persist"
    /\ LET f == req[p]
           data == f.request_data
           message == [Message(uuid.msg + 1, f.conversation_id, data.role, data.content)
                          EXCEPT !.topic_tier = tier_map(data.topic_tier)]
       IN  IF data.role \notin MessageRoles
           THEN /\ Return(p, f, Response(400, "is not a valid MessageRole", <<data.role>>, [id |-> 0]))
                /\ UNCHANGED <<messages, uuid>>
           ELSE IF ok
           THEN /\ messages' = messages \cup {message}
                /\ uuid' = [uuid EXCEPT !.msg = uuid.msg + 1]
                /\ Goto(p, Step([f EXCEPT !.pc = "update", !.message = message], "persist"))
           ELSE /\ Return(p, f, InternalServerError)
                /\ UNCHANGED <<messages, uuid>>
    /\ UNCHANGED <<conversations, classification_queue, usage_events, clock>>

\* Message(...) and msg_repo.create; the insert needs the conversation row
\* (foreign key messages.conversation_id)
create_message_persist(p, ok) ==
    /\ req[p].op = "create_message"
    /\ req[p].pc = "persist"
    /\ LET f == req[p]
           data == f.request_data
           message == [Message(uuid.msg + 1, f.conversation_id, data.role, data.content)
                          EXCEPT !.topic_tier = tier_map(data.topic_tier)]
       IN  IF data.role \notin MessageRoles
           THEN /\ Return(p, f, Response(400, "is not a valid MessageRole", <<data.role>>, [id |-> 0]))
                /\ UNCHANGED <<messages, uuid>>
           ELSE IF ok /\ ConvExists(f.conversation_id)
           THEN /\ messages' = messages \cup {message}
                /\ uuid' = [uuid EXCEPT !.msg = uuid.msg + 1]
                /\ Goto(p, Step([f EXCEPT !.pc = "update", !.message = message], "persist"))
           ELSE /\ Return(p, f, InternalServerError)
                /\ UNCHANGED <<messages, uuid>>
    /\ UNCHANGED <<conversations, classification_queue, usage_events, clock>>

\* faulty variant: token usage is tracked for every message that is not a user message
AfterUpdate_AnyRole(data) ==
    IF data.role = "user" THEN "classify"
    ELSE IF OrInt(data.total_tokens, 0) # 0 THEN "token_usage"
    ELSE "done"

\* where the handler goes once the conversation update is committed
AfterUpdate(data) ==
    IF data.role = "user" THEN "classify"
    ELSE IF data.role = "assistant" /\ OrInt(data.total_tokens, 0) # 0 THEN "token_usage"
    ELSE "done"

\* faulty variant: a failed update is swallowed and the side effects are dispatched
create_message_update_Swallow(p, ok) ==
    /\ req[p].op = "create_message"
    /\ req[p].pc = "update"
    /\ LET conversation == add_message(req[p].conversation)
           f == Step([req[p] EXCEPT !.conversation = conversation], "add_message")
           next == AfterUpdate(f.request_data)
           written == ok /\ ConvExists(conversation.id)
           g == IF written THEN Step(f, "update") ELSE f
       IN  /\ conversations' = IF written THEN ConvUpdated(conversation) ELSE conversations
           /\ IF next = "done"
              THEN Return(p, g, Response(201, "", << >>, f.message))
              ELSE Goto(p, [g EXCEPT !.pc = next])
    /\ UNCHANGED <<messages, classification_queue, usage_events, clock, uuid>>

\* faulty variant: the message row is taken back when the update fails
create_message_update_Compensate(p, ok) ==
    /\ req[p].op = "create_message"
    /\ req[p].pc = "update"
    /\ LET conversation == add_message(req[p].conversation)
           f == Step([req[p] EXCEPT !.conversation = conversation], "add_message")
           next == AfterUpdate(f.request_data)
       IN  IF ~ok
           THEN /\ Return(p, f, InternalServerError)
                /\ messages' = messages \ {f.message}
                /\ UNCHANGED conversations
           ELSE IF ~ConvExists(conversation.id)
           THEN /\ Return(p, f, Response(400, "Conversation not found: ",
                                         <<conversation.id>>, [id |-> 0]))
                /\ UNCHANGED <<conversations, messages>>
           ELSE /\ conversations' = ConvUpdated(conversation)
                /\ UNCHANGED messages
                /\ IF next = "done"
                   THEN Return(p, Step(f, "update"), Response(201, "", << >>, f.message))
                   ELSE Goto(p, Step([f EXCEPT !.pc = next], "update"))
    /\ UNCHANGED <<classification_queue, usage_events, clock, uuid>>

\* conversation.add_message() and conv_repo.update(conversation)
create_message_update(p, ok) ==
    /\ req[p].op = "create_message"
    /\ req[p].pc = "update"
    /\ LET conversation == add_message(req[p].conversation)
           f == Step([req[p] EXCEPT !.conversation = conversation], "add_message")
           next == AfterUpdate(f.request_data)
       IN  IF ~ok
           THEN /\ Return(p, f, InternalServerError)
                /\ UNCHANGED conversations
           ELSE IF ~ConvExists(conversation.id)
           THEN /\ Return(p, f, Response(400, "Conversation not found: ",
                                         <<conversation.id>>, [id |-> 0]))
                /\ UNCHANGED conversations
           ELSE /\ conversations' = ConvUpdated(conversation)
                /\ IF next = "done"
                   THEN Return(p, Step(f, "update"), Response(201, "", << >>, f.message))
                   ELSE Goto(p, Step([f EXCEPT !.pc = next], "update"))
    /\ UNCHANGED <<messages, classification_queue, usage_events, clock, uuid>>

\* queue.publish_for_classification: the job is pushed, or the failure is logged
ClassificationJob(message, conversation) ==
    [message_id |-> message.id,
     conversation_id |-> message.conversation_id,
     teen_id |-> conversation.teen_id,
     content |-> message.content]

\* faulty variant: a failed publish is tried again
create_message_classify_Retry(p, ok) ==
    /\ req[p].op = "create_message"
    /\ req[p].pc = "classify"
    /\ classification_queue' =
           IF ok THEN Append(classification_queue, ClassificationJob(req[p].message, req[p].conversation))
           ELSE classification_queue
    /\ Goto(p, Step([req[p] EXCEPT !.pc = IF ok THEN "usage" ELSE "classify"],
                    IF ok THEN "classify" ELSE "classify_failed"))
    /\ UNCHANGED <<conversations, messages, usage_events, clock, uuid>>

\* faulty variant: a failed publish ends the handler before the usage call
create_message_classify_Abort(p, ok) ==
    /\ req[p].op = "create_message"
    /\ req[p].pc = "classify"
    /\ classification_queue' =
           IF ok THEN Append(classification_queue, ClassificationJob(req[p].message, req[p].conversation))
           ELSE classification_queue
    /\ IF ok
       THEN Goto(p, Step([req[p] EXCEPT !.pc = "usage"], "classify"))
       ELSE Return(p, Step(req[p], "classify_failed"), Response(201, "", << >>, req[p].message))
    /\ UNCHANGED <<conversations, messages, usage_events, clock, uuid>>

create_message_classify(p, ok) ==
    /\ req[p].op = "create_message"
    /\ req[p].pc = "classify"
    /\ classification_queue' =
           IF ok THEN Append(classification_queue, ClassificationJob(req[p].message, req[p].conversation))
           ELSE classification_queue
    /\ Goto(p, Step([req[p] EXCEPT !.pc = "usage"], IF ok THEN "classify" ELSE "classify_failed"))
    /\ UNCHANGED <<conversations, messages, usage_events, clock, uuid>>

\* usage_service.record_message: the event is accepted, or the failure is logged
MessageRecord(conversation) ==
    [event_type |-> "message_record",
     user_id |-> conversation.teen_id,
     conversation_id |-> conversation.id,
     total_tokens |-> 0]

\* faulty variant: a failed usage call fails the request
create_message_usage_Raise(p, ok) ==
    /\ req[p].op = "create_message"
    /\ req[p].pc = "usage"
    /\ usage_events' =
           IF ok THEN Append(usage_events, MessageRecord(req[p].conversation)) ELSE usage_events
    /\ IF ok
       THEN Return(p, Step(req[p], "usage"), Response(201, "", << >>, req[p].message))
       ELSE Return(p, Step(req[p], "usage_failed"), InternalServerError)
    /\ UNCHANGED <<conversations, messages, classification_queue, clock, uuid>>

create_message_usage(p, ok) ==
    /\ req[p].op = "create_message"
    /\ req[p].pc = "usage"
    /\ usage_events' =
           IF ok THEN Append(usage_events, MessageRecord(req[p].conversation)) ELSE usage_events
    /\ Return(p, Step(req[p], IF ok THEN "usage" ELSE "usage_failed"),
              Response(201, "", << >>, req[p].message))
    /\ UNCHANGED <<conversations, messages, classification_queue, clock, uuid>>

\* usage_service.record_token_usage for an assistant message with total_tokens
\* faulty variant: the token count is not passed on
TokenUsage_NoTokens(conversation, data) ==
    [event_type |-> "token_usage",
     user_id |-> conversation.teen_id,
     conversation_id |-> 0,
     provider |-> OrStr(data.provider, "unknown"),
     model |-> OrStr(data.model, "unknown"),
     input_tokens |-> OrInt(data.input_tokens, 0),
     output_tokens |-> OrInt(data.output_tokens, 0),
     total_tokens |-> 0]

\* faulty variant: the optional fields are passed on as they came
TokenUsage_NoDefaults(conversation, data) ==
    [event_type |-> "token_usage",
     user_id |-> conversation.teen_id,
     conversation_id |-> 0,
     provider |-> IF data.provider = NoStr THEN "" ELSE data.provider[1],
     model |-> IF data.model = NoStr THEN "" ELSE data.model[1],
     input_tokens |-> IF data.input_tokens = NoInt THEN -1 ELSE data.input_tokens[1],
     output_tokens |-> IF data.output_tokens = NoInt THEN -1 ELSE data.output_tokens[1],
     total_tokens |-> data.total_tokens[1]]

TokenUsage(conversation, data) ==
    [event_type |-> "token_usage",
     user_id |-> conversation.teen_id,
     conversation_id |-> 0,
     provider |-> OrStr(data.provider, "unknown"),
     model |-> OrStr(data.model, "unknown"),
     input_tokens |-> OrInt(data.input_tokens, 0),
     output_tokens |-> OrInt(data.output_tokens, 0),
     total_tokens |-> data.total_tokens[1]]

create_message_token_usage(p, ok) ==
    /\ req[p].op = "create_message"
    /\ req[p].pc = "token_usage"
    /\ usage_events' =
           IF ok THEN Append(usage_events, TokenUsage(req[p].conversation, req[p].request_data))
           ELSE usage_events
    /\ Return(p, Step(req[p], IF ok THEN "token_usage" ELSE "token_usage_failed"),
              Response(201, "", << >>, req[p].message))
    /\ UNCHANGED <<conversations, messages, classification_queue, clock, uuid>>

\* ---- GET /conversations/{id} ----------------------------------------------------
get_conversation(p, cid) ==
    /\ Ready(p)
    /\ LET f == [Idle EXCEPT !.op = "get_conversation", !.conversation_id = cid]
           conversation == get_by_id(cid)
       IN  IF conversation = NoConv
           THEN Return(p, f, HTTPException(404, "Conversation not found"))
           ELSE Return(p, Step([f EXCEPT !.conversation = conversation], "load"),
                       Response(200, "", << >>, conversation))
    /\ UNCHANGED <<conversations, messages, classification_queue, usage_events, clock, uuid>>

\* ---- GET /teens/{teen_id}/conversations -------------------------------------------
\* ConversationStatus(status) raises ValueError for a string that is no status
get_teen_conversations(p, teen_id, status, limit, offset, ok) ==
    /\ Ready(p)
    /\ LET f == [Idle EXCEPT !.op = "get_teen_conversations",
                             !.request_data = [role |-> "", teen_id |-> teen_id, status |-> status,
                                               limit |-> limit, offset |-> offset]]
       IN  IF status # "" /\ status \notin {"active", "archived", "deleted"}
           THEN Return(p, f, Response(400, "Invalid status: ", <<status>>, [id |-> 0]))
           ELSE IF ~ok
           THEN Return(p, f, InternalServerError)
           ELSE \E items \in get_by_teen_id(teen_id, status, limit, offset) :
                   Return(p, Step(f, "list"),
                          Response(200, "", << >>, [id |-> 0, items |-> items]))
    /\ UNCHANGED <<conversations, messages, classification_queue, usage_events, clock, uuid>>

\* ---- GET /conversations/{id}/messages -------------------------------------------
get_conversation_messages(p, cid, limit, offset, ok) ==
    /\ Ready(p)
    /\ LET f == [Idle EXCEPT !.op = "get_conversation_messages", !.conversation_id = cid,
                             !.request_data = [role |-> "", limit |-> limit, offset |-> offset]]
       IN  IF ~ok
           THEN Return(p, f, InternalServerError)
           ELSE \E items \in get_by_conversation_id(cid, limit, offset) :
                   Return(p, Step(f, "list"),
                          Response(200, "", << >>, [id |-> 0, items |-> items]))
    /\ UNCHANGED <<conversations, messages, classification_queue, usage_events, clock, uuid>>

\* ---- time passes ---------------------------------------------------------------
Tick ==
    /\ clock < MaxClock
    /\ clock' = clock + 1
    /\ UNCHANGED <<conversations, messages, classification_queue, usage_events, uuid, req, last>>

\* ---- the system ------------------------------------------------------------------------
ConversationInputs == [teen_id : Teens, title : {<< >>}]

PatchInputs == [title : {<< >>}, status : StatusInputs]

\* the token fields of a body: none for a user or system message, the documented
\* example (openai, gpt-4o, 150 tokens) for an assistant message
ExampleUsage(r) ==
    IF r = "assistant"
    THEN [provider |-> <<"openai">>, model |-> <<"gpt-4o">>, input_tokens |-> NoInt,
          output_tokens |-> NoInt, total_tokens |-> <<150>>]
    ELSE [provider |-> NoStr, model |-> NoStr, input_tokens |-> NoInt,
          output_tokens |-> NoInt, total_tokens |-> NoInt]

MessageInputs ==
    {[role |-> r, content |-> "Hi", topic_tier |-> NoInt] @@ ExampleUsage(r) : r \in RoleInputs}

Next ==
    \/ \E p \in Procs, data \in ConversationInputs : create_conversation(p, data)
    \/ \E p \in Procs, cid \in ConvIds : delete_conversation(p, cid)
    \/ \E p \in Procs, cid \in ConvIds, data \in PatchInputs : update_conversation_load(p, cid, data)
    \/ \E p \in Procs, ok \in BOOLEAN : update_conversation_update(p, ok)
    \/ \E p \in Procs, cid \in ConvIds, data \in MessageInputs : create_message_load(p, cid, data)
    \/ \E p \in Procs, answer \in UsageAnswers : create_message_guard(p, answer)
    \/ \E p \in Procs, ok \in BOOLEAN : create_message_persist(p, ok)
    \/ \E p \in Procs, ok \in BOOLEAN : create_message_update(p, ok)
    \/ \E p \in Procs, ok \in BOOLEAN : create_message_classify(p, ok)
    \/ \E p \in Procs, ok \in BOOLEAN : create_message_usage(p, ok)
    \/ \E p \in Procs, ok \in BOOLEAN : create_message_token_usage(p, ok)

Spec == Init /\ [][Next]_vars

\* ---- one request at a time, with time passing ----------------------------------
\* the same handlers run by a single request task, one after the other
SeqNext ==
    \/ Tick
    \/ \E data \in ConversationInputs : create_conversation(1, data)
    \/ \E cid \in ConvIds : get_conversation(1, cid)
    \/ \E cid \in ConvIds : delete_conversation(1, cid)
    \/ \E cid \in ConvIds, data \in PatchInputs : update_conversation_load(1, cid, data)
    \/ \E ok \in BOOLEAN : update_conversation_update(1, ok)
    \/ \E cid \in ConvIds, data \in MessageInputs : create_message_load(1, cid, data)
    \/ \E answer \in UsageAnswers : create_message_guard(1, answer)
    \/ \E ok \in BOOLEAN : create_message_persist(1, ok)
    \/ \E ok \in BOOLEAN : create_message_update(1, ok)
    \/ \E ok \in BOOLEAN : create_message_classify(1, ok)
    \/ \E ok \in BOOLEAN : create_message_usage(1, ok)
    \/ \E ok \in BOOLEAN : create_message_token_usage(1, ok)

SeqSpec == Init /\ [][SeqNext]_vars

\* ---- the entities on their own ---------------------------------------------------
\* a task holds one Conversation or one Message object and calls its methods, with
\* time passing between the calls; the frame keeps the calls made and the error of
\* the last one
Repeat(ch, n) == [i \in 1..n |-> ch]

LongTitle == <<" ">> \o Repeat("a", TitleMax - 1) \o <<" ", "b", "c", "\n">>

TitleInputs == {<< >>, <<" ", "\t">>, <<" ", "H", "i", " ">>, Repeat("x", TitleMax), LongTitle}

FlagInputs == {"pii_detected"}

ReasonInputs == {"self_harm", "violence"}

ConversationFrame(teen_id, title) ==
    [Idle EXCEPT !.op = "conversation", !.pc = "entity", !.conversation_id = 1,
                 !.conversation = Conversation(1, teen_id, title)]

MessageFrame(role, tier) ==
    [Idle EXCEPT !.op = "message", !.pc = "entity", !.conversation_id = 1,
                 !.message = [Message(1, 1, role, "Hi") EXCEPT !.topic_tier = tier]]

EntityInit ==
    /\ conversations = {}
    /\ messages = {}
    /\ classification_queue = << >>
    /\ usage_events = << >>
    /\ clock = 0
    /\ uuid = [conv |-> 1, msg |-> 1]
    /\ last = Idle
    /\ \E f \in {ConversationFrame(t, << >>) : t \in Teens}
                 \cup {MessageFrame("user", tier) : tier \in TopicTiers \cup {NoTier}} :
          req = [p \in Procs |-> IF p = 1 THEN f ELSE Idle]

Holds(p, kind) ==
    /\ req[p].op = kind
    /\ req[p].pc = "entity"
    /\ Len(req[p].trace) < MaxCalls

\* the method returned (error = "") or raised ValueError(error), leaving the frame f
Called(p, f, name, error) ==
    /\ Goto(p, Step([f EXCEPT !.response = HTTPException(0, error)], name))
    /\ UNCHANGED <<conversations, messages, classification_queue, usage_events, clock, uuid>>

call_add_message(p) ==
    /\ Holds(p, "conversation")
    /\ Called(p, [req[p] EXCEPT !.conversation = add_message(req[p].conversation)],
              "add_message", "")

call_set_title(p, title) ==
    /\ Holds(p, "conversation")
    /\ LET r == set_title(req[p].conversation, title)
       IN  Called(p, [req[p] EXCEPT !.conversation = r.c], "set_title", r.error)

call_archive(p) ==
    /\ Holds(p, "conversation")
    /\ LET r == archive(req[p].conversation)
       IN  Called(p, [req[p] EXCEPT !.conversation = r.c], "archive", r.error)

call_restore(p) ==
    /\ Holds(p, "conversation")
    /\ LET r == restore(req[p].conversation)
       IN  Called(p, [req[p] EXCEPT !.conversation = r.c], "restore", r.error)

call_delete(p) ==
    /\ Holds(p, "conversation")
    /\ Called(p, [req[p] EXCEPT !.conversation = delete(req[p].conversation)], "delete", "")

call_set_topic_classification(p, tier) ==
    /\ Holds(p, "message")
    /\ Called(p, [req[p] EXCEPT !.message = set_topic_classification(req[p].message, tier, <<"topic">>)],
              "set_topic_classification", "")

call_add_safety_flag(p, flag_type) ==
    /\ Holds(p, "message")
    /\ Called(p, [req[p] EXCEPT !.message = add_safety_flag(req[p].message, flag_type, "details")],
              "add_safety_flag", "")

call_mark_as_blocked(p, reason) ==
    /\ Holds(p, "message")
    /\ Called(p, [req[p] EXCEPT !.message = mark_as_blocked(req[p].message, reason)],
              "mark_as_blocked", "")

EntityNext ==
    \/ Tick
    \/ \E p \in Procs : call_add_message(p)
    \/ \E p \in Procs, title \in TitleInputs : call_set_title(p, title)
    \/ \E p \in Procs : call_archive(p)
    \/ \E p \in Procs : call_restore(p)
    \/ \E p \in Procs : call_delete(p)
    \/ \E p \in Procs, tier \in TopicTiers : call_set_topic_classification(p, tier)
    \/ \E p \in Procs, flag_type \in FlagInputs : call_add_safety_flag(p, flag_type)
    \/ \E p \in Procs, reason \in ReasonInputs : call_mark_as_blocked(p, reason)

EntitySpec == EntityInit /\ [][EntityNext]_vars

\* ---- the conversation handlers with any title and status text ------------------------
\* POST, GET, PATCH and DELETE run one after the other, with the titles of
\* TitleInputs and with a status that is absent (""), known or unknown
KnownStatus == {"active", "archived", "deleted"}

PatchStatusInputs == KnownStatus \cup {"", "bogus"}

WideConversationInputs == [teen_id : Teens, title : TitleInputs]

WidePatchInputs == [title : TitleInputs, status : PatchStatusInputs]

PatchNext ==
    \/ Tick
    \/ \E data \in WideConversationInputs : create_conversation(1, data)
    \/ \E cid \in ConvIds : get_conversation(1, cid)
    \/ \E cid \in ConvIds : delete_conversation(1, cid)
    \/ \E cid \in ConvIds, data \in WidePatchInputs : update_conversation_load(1, cid, data)
    \/ \E ok \in BOOLEAN : update_conversation_update(1, ok)

PatchSpec == Init /\ [][PatchNext]_vars

\* ---- appends with any topic tier -------------------------------------------------------
\* one request task creates the conversation and appends user and assistant
\* messages whose topic_tier is absent, inside 1..4 or outside it
TierInputs == {NoInt} \cup {<<n>> : n \in 0..5}

WideMessageInputs ==
    {[role |-> r, content |-> "Hi", topic_tier |-> t] @@ ExampleUsage(r) :
        r \in {"user", "assistant"}, t \in TierInputs}

AppendNext ==
    \/ \E data \in ConversationInputs : create_conversation(1, data)
    \/ \E cid \in ConvIds : delete_conversation(1, cid)
    \/ \E cid \in ConvIds, data \in WideMessageInputs : create_message_load(1, cid, data)
    \/ \E answer \in UsageAnswers : create_message_guard(1, answer)
    \/ \E ok \in BOOLEAN : create_message_persist(1, ok)
    \/ \E ok \in BOOLEAN : create_message_update(1, ok)
    \/ \E ok \in BOOLEAN : create_message_classify(1, ok)
    \/ \E ok \in BOOLEAN : create_message_usage(1, ok)
    \/ \E ok \in BOOLEAN : create_message_token_usage(1, ok)

AppendSpec == Init /\ [][AppendNext]_vars

\* ---- appends against external services that may never answer ------------------------
\* at an await on the usage service or on redis the service called may stop
\* answering; the httpx clients are built with timeout=5.0, so their call then
\* raises and is handled as a failure; the redis client is built without any
\* timeout, so rpush has nothing that ends the wait
ExternalCalls == {"guard", "classify", "usage", "token_usage"}

Stalled(p) == req[p].trace # << >> /\ req[p].trace[Len(req[p].trace)] = "stall"

external_stall(p) ==
    /\ req[p].op = "create_message"
    /\ req[p].pc \in ExternalCalls
    /\ ~Stalled(p)
    /\ Goto(p, Step(req[p], "stall"))
    /\ UNCHANGED <<conversations, messages, classification_queue, usage_events, clock, uuid>>

\* the steps that resume a suspended append: an answer, a failure or a timeout arrived
Continue(p) ==
    \/ \E answer \in UsageAnswers :
          /\ Stalled(p) => answer.kind = "error"
          /\ create_message_guard(p, answer)
    \/ \E ok \in BOOLEAN : create_message_persist(p, ok)
    \/ \E ok \in BOOLEAN : create_message_update(p, ok)
    \/ \E ok \in BOOLEAN :
          /\ ~Stalled(p)
          /\ create_message_classify(p, ok)
    \/ \E ok \in BOOLEAN :
          /\ Stalled(p) => ~ok
          /\ create_message_usage(p, ok)
    \/ \E ok \in BOOLEAN :
          /\ Stalled(p) => ~ok
          /\ create_message_token_usage(p, ok)

LiveNext ==
    \/ \E data \in ConversationInputs : create_conversation(1, data)
    \/ \E cid \in ConvIds, data \in MessageInputs : create_message_load(1, cid, data)
    \/ external_stall(1)
    \/ Continue(1)

\* the event loop resumes a task whose awaited call has completed or timed out
LiveSpec == Init /\ [][LiveNext]_vars /\ WF_vars(Continue(1))

\* ---- appends whose request task may be cancelled --------------------------------------
\* the handler runs every step inline in the request task, with no shield and no
\* background task; a cancellation delivered while the task is suspended at an
\* await raises CancelledError there, which is not an Exception and so passes
\* every except clause of the handler: the task ends and the later steps never run
Awaits == {"guard", "persist", "update", "classify", "usage", "token_usage"}

cancel(p) ==
    /\ req[p].op = "create_message"
    /\ req[p].pc \in Awaits
    /\ Return(p, Step(req[p], "cancelled"), Response(0, "CancelledError", << >>, [id |-> 0]))
    /\ UNCHANGED <<conversations, messages, classification_queue, usage_events, clock, uuid>>

CancelNext ==
    \/ \E data \in ConversationInputs : create_conversation(1, data)
    \/ \E cid \in ConvIds, data \in MessageInputs : create_message_load(1, cid, data)
    \/ cancel(1)
    \/ Continue(1)

\* the event loop resumes a task whose awaited call has completed
CancelSpec == Init /\ [][CancelNext]_vars /\ WF_vars(Continue(1))

\* ---- listing the messages of a conversation ------------------------------------------
\* the message table as concurrent appends can leave it: a Message takes its
\* created_at when it is built and its row is committed later, so a row inserted
\* later may carry an earlier created_at, and rows may share one
ListConvIds == 1..(MaxConvs + 1)

ListMsgIds == 1..(MaxMsgs + 1)

ListRow(id, cid, t) == [Message(id, cid, "user", "Hi") EXCEPT !.created_at = t]

\* for each of the first n message ids, its conversation and its created_at
ListTables == UNION {[1..n -> ListConvIds \X (0..MaxClock)] : n \in {0} \cup ListMsgIds}

ListInit ==
    /\ clock = MaxClock
    /\ \E T \in ListTables :
          /\ messages = {ListRow(id, T[id][1], T[id][2]) : id \in DOMAIN T}
          /\ uuid = [conv |-> MaxConvs + 1, msg |-> Cardinality(DOMAIN T)]
    /\ conversations =
          {[id |-> cid, teen_id |-> CHOOSE t \in Teens : TRUE, title |-> DefaultTitle, status |-> "active",
            created_at |-> 0, updated_at |-> MaxClock,
            last_message_at |-> IF count_by_conversation_id(cid) = 0 THEN NoTime ELSE MaxClock,
            message_count |-> count_by_conversation_id(cid)] : cid \in ListConvIds}
    /\ classification_queue = << >>
    /\ usage_events = << >>
    /\ req = [p \in Procs |-> Idle]
    /\ last = Idle

LimitInputs == {0, 1, 2, DefaultPage}

OffsetInputs == {0, 1, 2}

ListNext ==
    \E cid \in ListConvIds, limit \in LimitInputs, offset \in OffsetInputs, ok \in BOOLEAN :
       get_conversation_messages(1, cid, limit, offset, ok)

ListSpec == ListInit /\ [][ListNext]_vars

\* ---- listing the conversations of a teen ---------------------------------------------
\* the conversation table after some requests of two teens: active and archived
\* rows created at 0 or 1, without a message yet or with a last message at 1 or 2
TeenInputs == {10 + i : i \in 1..(NumTeens + 1)}

TeenConvIds == 1..(MaxConvs + 2)

TeenOwners == {<<t, "active">> : t \in TeenInputs} \cup {<<t, "archived">> : t \in Teens}

TeenTimes == {<<0, NoTime>>, <<1, NoTime>>, <<0, 1>>, <<1, 1>>, <<0, 2>>}

TeenRows == {<<o[1], o[2], t[1], t[2]>> : o \in TeenOwners, t \in TeenTimes}

\* ids are handed out in the order of creation, so created_at does not fall along them
TeenTables ==
    {T \in UNION {[1..n -> TeenRows] : n \in {0} \cup TeenConvIds} :
        \A i, j \in DOMAIN T : i < j => T[i][3] <= T[j][3]}

TeenInit ==
    /\ clock = MaxClock
    /\ \E T \in TeenTables :
          /\ conversations =
                {[id |-> id, teen_id |-> T[id][1], title |-> DefaultTitle, status |-> T[id][2],
                  created_at |-> T[id][3], updated_at |-> MaxClock,
                  last_message_at |-> T[id][4],
                  message_count |-> IF T[id][4] = NoTime THEN 0 ELSE 1] : id \in DOMAIN T}
          /\ uuid = [conv |-> Cardinality(DOMAIN T), msg |-> 0]
    /\ messages = {}
    /\ classification_queue = << >>
    /\ usage_events = << >>
    /\ req = [p \in Procs |-> Idle]
    /\ last = Idle

TeenStatusInputs == {"", "active", "bogus"}

TeenLimitInputs == {1, DefaultTeenPage}

TeenOffsetInputs == {0, 1}

TeenNext ==
    \E teen_id \in TeenInputs, status \in TeenStatusInputs, limit \in TeenLimitInputs,
       offset \in TeenOffsetInputs, ok \in BOOLEAN :
          get_teen_conversations(1, teen_id, status, limit, offset, ok)

TeenSpec == TeenInit /\ [][TeenNext]_vars

\* ---- appends against any answer of the usage service --------------------------------
\* GET /api/v1/usage/today answers 200, 404 or 500 with a body whose messages_sent
\* is below, at or above the limit (0 also stands for a body without the field),
\* or the transport fails
WideUsageAnswers ==
    {[kind |-> "error", status_code |-> 0, messages_sent |-> 0]}
        \cup {[kind |-> "response", status_code |-> c, messages_sent |-> n] :
                 c \in {200, 404, 500}, n \in {0, 99, 100, 101}}

GuardNext ==
    \/ \E data \in ConversationInputs : create_conversation(1, data)
    \/ \E cid \in ConvIds, data \in MessageInputs : create_message_load(1, cid, data)
    \/ \E answer \in WideUsageAnswers : create_message_guard(1, answer)
    \/ \E ok \in BOOLEAN : create_message_persist(1, ok)
    \/ \E ok \in BOOLEAN : create_message_update(1, ok)
    \/ \E ok \in BOOLEAN : create_message_classify(1, ok)
    \/ \E ok \in BOOLEAN : create_message_usage(1, ok)
    \/ \E ok \in BOOLEAN : create_message_token_usage(1, ok)

GuardSpec == Init /\ [][GuardNext]_vars

\* ---- appends of every role with any token fields -------------------------------------
\* provider, model, input_tokens and output_tokens of a body: all absent, all
\* given, and mixtures with an empty provider and a zero count
UsageFieldInputs ==
    {[provider |-> NoStr, model |-> NoStr, input_tokens |-> NoInt, output_tokens |-> NoInt],
     [provider |-> <<"openai">>, model |-> <<"gpt-4o">>,
      input_tokens |-> <<100>>, output_tokens |-> <<50>>],
     [provider |-> <<"">>, model |-> NoStr, input_tokens |-> <<0>>, output_tokens |-> NoInt],
     [provider |-> NoStr, model |-> <<"gpt-4o">>, input_tokens |-> NoInt, output_tokens |-> <<50>>]}

TotalTokenInputs == {NoInt, <<0>>, <<1>>, <<150>>}

\* total_tokens of 1 comes with every mixture of the other fields, the other
\* values of total_tokens with the fields all absent or all given
TokenFieldInputs ==
    {[total_tokens |-> t] @@ u : t \in TotalTokenInputs, u \in UsageFieldInputs}

TokenMessageInputs ==
    {[role |-> r, content |-> "Hi", topic_tier |-> NoInt] @@ u :
        r \in MessageRoles,
        u \in {v \in TokenFieldInputs :
                 \/ v.total_tokens = <<1>>
                 \/ v.total_tokens \in {NoInt, <<150>>} /\ v.provider = NoStr /\ v.model = NoStr
                 \/ v.total_tokens = <<0>> /\ v.provider = <<"openai">>}}

TokenNext ==
    \/ \E data \in ConversationInputs : create_conversation(1, data)
    \/ \E cid \in ConvIds, data \in TokenMessageInputs : create_message_load(1, cid, data)
    \/ \E answer \in UsageAnswers : create_message_guard(1, answer)
    \/ \E ok \in BOOLEAN : create_message_persist(1, ok)
    \/ \E ok \in BOOLEAN : create_message_update(1, ok)
    \/ \E ok \in BOOLEAN : create_message_classify(1, ok)
    \/ \E ok \in BOOLEAN : create_message_usage(1, ok)
    \/ \E ok \in BOOLEAN : create_message_token_usage(1, ok)
    \/ Tick

TokenSpec == Init /\ [][TokenNext]_vars

\* ---- helpers of the properties -------------------------------------------------------
Stored(cid) == get_by_id(cid)

Has(trace, name) == \E i \in 1..Len(trace) : trace[i] = name

Pos(trace, name) == IF Has(trace, name) THEN CHOOSE i \in 1..Len(trace) : trace[i] = name ELSE 0

Count(trace, name) == Cardinality({i \in 1..Len(trace) : trace[i] = name})

Frames == {req[p] : p \in Procs} \cup {last}

Appends == {f \in Frames : f.op = "create_message"}

StoreUnchanged == UNCHANGED <<conversations, messages, classification_queue, usage_events>>

\* ---- C1 -------------------------------------------------------------------------------
\* C1: an append to a conversation whose stored status is archived or deleted is
\* answered 400 in its first step, and that step changes no message row, no
\* conversation row (message_count, last_message_at), no queue and no usage event.
C1_InactiveRejected ==
    [][\A p \in Procs, cid \in ConvIds, data \in MessageInputs :
          (/\ create_message_load(p, cid, data)
           /\ ConvExists(cid)
           /\ Stored(cid).status \in {"archived", "deleted"})
          => /\ last'.op = "create_message"
             /\ last'.conversation_id = cid
             /\ last'.response.status = 400
             /\ last'.message = NoMsg
             /\ req'[p] = Idle
             /\ StoreUnchanged]_vars

C1_Witness ==
    /\ last.op = "create_message"
    /\ last.response.status = 400
    /\ last.conversation # NoConv
    /\ last.conversation.status = "deleted"
    /\ ConvExists(last.conversation_id)
    /\ Stored(last.conversation_id).status = "deleted"

\* ---- C2 -------------------------------------------------------------------------------
\* the steps of a user append in which the collaborator does its part
UserFrame(p) == req[p].op = "create_message" /\ req[p].request_data.role = "user"

PersistOk(p) == create_message_persist(p, TRUE) /\ ConvExists(req[p].conversation_id)

UpdateOk(p) == create_message_update(p, TRUE) /\ ConvExists(req[p].conversation_id)

\* what C2 says of every step but the counter
C2_Steps(p) ==
    /\ PersistOk(p) =>
          /\ messages \subseteq messages'
          /\ Cardinality(messages' \ messages) = 1
          /\ \A m \in messages' \ messages :
                /\ m.conversation_id = req[p].conversation_id
                /\ m.role = "user"
                /\ m.content = req[p].request_data.content
                /\ m = req'[p].message
    /\ UpdateOk(p) =>
          /\ Stored(req[p].conversation_id)'.last_message_at = utcnow
          /\ Stored(req[p].conversation_id)'.last_message_at # NoTime
    /\ create_message_classify(p, TRUE) =>
          /\ Len(classification_queue') = Len(classification_queue) + 1
          /\ SubSeq(classification_queue', 1, Len(classification_queue)) = classification_queue
          /\ LET job == classification_queue'[Len(classification_queue')]
             IN  /\ job.message_id = req[p].message.id
                 /\ job.conversation_id = req[p].conversation_id
                 /\ job.teen_id = req[p].conversation.teen_id
                 /\ job.content = req[p].request_data.content
    /\ create_message_usage(p, TRUE) =>
          /\ Len(usage_events') = Len(usage_events) + 1
          /\ SubSeq(usage_events', 1, Len(usage_events)) = usage_events
          /\ usage_events'[Len(usage_events')].event_type = "message_record"
          /\ usage_events'[Len(usage_events')].user_id = req[p].conversation.teen_id
          /\ last'.response.status = 201
          /\ last'.response.body = req[p].message
          /\ last'.trace = <<"load", Head(Tail(req[p].trace)), "persist", "add_message", "update",
                             req[p].trace[6], "usage">>

Dispatches ==
    {"classify", "classify_failed", "usage", "usage_failed", "token_usage", "token_usage_failed"}

\* C3: in every append, in flight or returned, the message row is committed before
\* add_message() is applied, add_message() is applied once and its update committed
\* before any dispatch; a handler is at a dispatch step, and a job is in the queue,
\* only for a message whose row and whose conversation update were committed.
C3_CommitBeforeDispatch ==
    /\ \A f \in Appends :
          LET t == f.trace
          IN  /\ Count(t, "persist") <= 1
              /\ Count(t, "add_message") <= 1
              /\ Count(t, "update") <= 1
              /\ Has(t, "persist") => f.message # NoMsg /\ f.message.id \in 1..uuid.msg
              /\ Has(t, "add_message") => Has(t, "persist") /\ Pos(t, "persist") < Pos(t, "add_message")
              /\ Has(t, "update") => Has(t, "add_message") /\ Pos(t, "add_message") < Pos(t, "update")
              /\ \A d \in Dispatches : Has(t, d) => Has(t, "update") /\ Pos(t, "update") < Pos(t, d)
              /\ f.pc \in {"classify", "usage", "token_usage"} => Has(t, "update")
              /\ f.pc = "update" => Has(t, "persist") /\ ~Has(t, "add_message")
    /\ \A i \in 1..Len(classification_queue) :
          classification_queue[i].message_id \in 1..uuid.msg

C3_Witness ==
    /\ last.op = "create_message"
    /\ last.trace = <<"load", "persist", "add_message", "update", "token_usage">>
    /\ last.message \in messages
    /\ Len(usage_events) = 1

\* ---- C4 -------------------------------------------------------------------------------
\* C4: when the Limit Guard answers allowed = false, that step answers 429 with the
\* sent and limit counts in the detail, and changes no message row, no conversation
\* row, no queue and no usage event.
C4_RateLimited ==
    [][\A p \in Procs, answer \in UsageAnswers :
          (create_message_guard(p, answer) /\ ~check_daily_message_limit(answer).allowed)
          => /\ last'.op = "create_message"
             /\ last'.response.status = 429
             /\ last'.response.args = <<check_daily_message_limit(answer).messages_sent,
                                        check_daily_message_limit(answer).messages_limit>>
             /\ last'.message = NoMsg
             /\ last'.conversation = req[p].conversation
             /\ req'[p] = Idle
             /\ StoreUnchanged]_vars

C4_Witness ==
    /\ last.op = "create_message"
    /\ last.response.status = 429
    /\ last.response.args = <<100, 100>>
    /\ ~last.limit_check.allowed
    /\ messages = {}
    /\ Stored(last.conversation_id).message_count = 0

\* ---- C5 -------------------------------------------------------------------------------
\* C5: a limit check that fails in transport yields allowed = true, messages_sent = 0,
\* messages_limit = 100, and the guard step answers nothing and hands the append on to
\* persistence; an append that went through such a check is never answered 429, is
\* answered 201 iff its conversation update was committed, and is otherwise answered
\* with the storage failure of the persist or update step.
C5_FailOpen ==
    [][/\ \A p \in Procs, answer \in UsageAnswers :
             (create_message_guard(p, answer) /\ answer.kind = "error")
             => /\ req'[p].pc = "persist"
                /\ req'[p].limit_check =
                      [allowed |-> TRUE, messages_sent |-> 0, messages_limit |-> 100]
                /\ Has(req'[p].trace, "guard_error")
                /\ UNCHANGED last
                /\ StoreUnchanged
       /\ Has(last'.trace, "guard_error")
             => /\ last'.response.status # 429
                /\ last'.response.status = 201 <=> Has(last'.trace, "update")
                /\ last'.response.status # 201 =>
                      last'.response.detail \in {"Internal server error", "Conversation not found: "}]_vars

C5_Witness ==
    /\ last.op = "create_message"
    /\ Has(last.trace, "guard_error")
    /\ last.response.status = 201
    /\ last.message \in messages

\* ---- C6 -------------------------------------------------------------------------------
GuardCalled(f) == Has(f.trace, "guard") \/ Has(f.trace, "guard_error")

Loaded(f) == f.conversation # NoConv

\* C6: an append has called the Limit Guard iff its role is user and the conversation
\* it loaded exists and is active (and the handler is past the call); the call is the
\* step right after the load, before the message is persisted; a missing conversation
\* is answered 404 and a non-active one 400 with no call.
C6_GuardIffUserActive ==
    \A f \in Appends :
       /\ GuardCalled(f) <=>
             /\ f.request_data.role = "user"
             /\ Loaded(f)
             /\ f.conversation.status = "active"
             /\ f.pc # "guard"
       /\ GuardCalled(f) =>
             /\ Count(f.trace, "guard") + Count(f.trace, "guard_error") = 1
             /\ f.trace[1] = "load"
             /\ f.trace[2] \in {"guard", "guard_error"}
       /\ (f.pc = "done" /\ ~Loaded(f)) => f.response.status = 404 /\ f.trace = << >>
       /\ (f.pc = "done" /\ Loaded(f) /\ f.conversation.status # "active") =>
             f.response.status = 400 /\ f.trace = <<"load">>

C6_Witness ==
    /\ last.op = "create_message"
    /\ last.request_data.role = "user"
    /\ Loaded(last)
    /\ last.conversation.status = "archived"
    /\ last.response.status = 400
    /\ ~GuardCalled(last)

\* ---- C7 -------------------------------------------------------------------------------
\* C7: a dispatch step that fails changes no message row and no conversation row, as a
\* dispatch step that succeeds changes none; after a failed classification publish the
\* handler goes on to the usage call, and after a failed usage call the append is
\* answered 201 with the stored message.
C7_DispatchFailureAbsorbed ==
    [][\A p \in Procs :
          /\ \A ok \in BOOLEAN :
                (\/ create_message_classify(p, ok)
                 \/ create_message_usage(p, ok)
                 \/ create_message_token_usage(p, ok))
                => UNCHANGED <<conversations, messages>>
          /\ create_message_classify(p, FALSE) =>
                /\ req'[p].pc = "usage"
                /\ UNCHANGED <<classification_queue, usage_events, last>>
          /\ (create_message_usage(p, FALSE) \/ create_message_token_usage(p, FALSE)) =>
                /\ last'.response.status = 201
                /\ last'.response.body = req[p].message
                /\ last'.message = req[p].message
                /\ UNCHANGED <<classification_queue, usage_events>>
       /\ (Has(last'.trace, "classify_failed") \/ Has(last'.trace, "usage_failed")
              \/ Has(last'.trace, "token_usage_failed"))
             => last'.response.status = 201 /\ last'.response.body = last'.message]_vars

C7_Witness ==
    /\ last.op = "create_message"
    /\ Has(last.trace, "classify_failed")
    /\ Has(last.trace, "usage_failed")
    /\ last.response.status = 201
    /\ last.response.body \in messages
    /\ Stored(last.conversation_id).message_count = 1
    /\ classification_queue = << >>
    /\ usage_events = << >>

\* ---- C8 -------------------------------------------------------------------------------
PersistFails(p, ok) ==
    /\ create_message_persist(p, ok)
    /\ req[p].request_data.role \in MessageRoles
    /\ ~ok \/ ~ConvExists(req[p].conversation_id)

\* C8: when the insert of the message fails, the append is answered 500, no message
\* row is added, no conversation row changes (message_count and last_message_at
\* included) and nothing is put on the queue or sent to the usage service.
C8_PersistFailure ==
    [][\A p \in Procs, ok \in BOOLEAN :
          PersistFails(p, ok)
          => /\ last'.op = "create_message"
             /\ last'.response.status = 500
             /\ last'.message = NoMsg
             /\ ~Has(last'.trace, "persist")
             /\ \A m \in messages' : m.id # uuid.msg + 1
             /\ req'[p] = Idle
             /\ UNCHANGED uuid
             /\ StoreUnchanged]_vars

C8_Witness ==
    /\ last.op = "create_message"
    /\ last.response.status = 500
    /\ last.trace = <<"load", "guard">>
    /\ ConvExists(last.conversation_id)
    /\ Stored(last.conversation_id).message_count = 0
    /\ Stored(last.conversation_id).last_message_at = NoTime
    /\ messages = {}
    /\ classification_queue = << >>
    /\ usage_events = << >>

\* ---- C9 -------------------------------------------------------------------------------
UpdateFails(p, ok) ==
    /\ create_message_update(p, ok)
    /\ ~ok \/ ~ConvExists(req[p].conversation_id)

C10_NeverOverCounts ==
    \A c \in conversations : c.message_count <= count_by_conversation_id(c.id)

C10_Witness ==
    \E c \in conversations :
       /\ c.message_count = 1
       /\ count_by_conversation_id(c.id) = 2
       /\ \A p \in Procs : Ready(p)

\* ---- C11 ------------------------------------------------------------------------------
\* C11: from one state to the next, the stored message_count of a conversation that
\* stays in the store never decreases.
C11_CountNeverDecreases ==
    [][\A c \in conversations : \A d \in conversations' :
          d.id = c.id => d.message_count >= c.message_count]_vars

\* ---- C12 ------------------------------------------------------------------------------
\* C12: a conversation stored with status deleted is never stored with another status
\* in the next state.
C12_DeletedIsTerminal ==
    [][\A c \in conversations : \A d \in conversations' :
          (d.id = c.id /\ c.status = "deleted") => d.status = "deleted"]_vars

\* ---- C13 ------------------------------------------------------------------------------
\* C13: on a conversation loaded with status deleted, archive() and restore() each
\* raise and leave every field of the entity as it was, updated_at included; a PATCH
\* asking for archived or active is then answered 400 with the message of the error
\* and writes nothing.
C13_DeletedRejectsArchiveRestore ==
    [][\A cid \in ConvIds, data \in PatchInputs :
          (/\ update_conversation_load(1, cid, data)
           /\ ConvExists(cid)
           /\ Stored(cid).status = "deleted"
           /\ data.status \in {"archived", "active"})
          => LET c == ApplyTitle(Stored(cid), data.title).c
             IN  /\ archive(c).error = "Cannot archive a deleted conversation"
                 /\ archive(c).c = c
                 /\ restore(c).error = "Cannot restore a deleted conversation"
                 /\ restore(c).c = c
                 /\ last'.op = "update_conversation"
                 /\ last'.response.status = 400
                 /\ last'.response.detail =
                       IF data.status = "archived" THEN archive(c).error ELSE restore(c).error
                 /\ last'.conversation = c
                 /\ req'[1] = Idle
                 /\ StoreUnchanged]_vars

C13_Witness ==
    /\ last.op = "update_conversation"
    /\ last.request_data.status = "archived"
    /\ last.response.status = 400
    /\ last.response.detail = "Cannot archive a deleted conversation"
    /\ ConvExists(last.conversation_id)
    /\ Stored(last.conversation_id).status = "deleted"
    /\ Stored(last.conversation_id).updated_at < clock
    /\ last.conversation = Stored(last.conversation_id)

\* ---- C14 ------------------------------------------------------------------------------
\* C14: on a conversation that is active or archived, archive() returns with status
\* archived and restore() returns with status active; restore() right after a
\* successful archive() gives active; a conversation is deleted only after delete().
C14_ArchiveRestore ==
    [][\A p \in Procs :
          LET c == req[p].conversation
              d == req'[p].conversation
              t == req[p].trace
          IN  /\ (call_archive(p) /\ c.status \in {"active", "archived"})
                    => /\ req'[p].response.detail = ""
                       /\ d.status = "archived"
              /\ (call_restore(p) /\ c.status \in {"active", "archived"})
                    => /\ req'[p].response.detail = ""
                       /\ d.status = "active"
              /\ (call_restore(p) /\ t # << >> /\ t[Len(t)] = "archive"
                     /\ req[p].response.detail = "")
                    => d.status = "active"
              /\ (req'[p].op = "conversation" /\ d.status = "deleted")
                    => Has(req'[p].trace, "delete")]_vars

C14_Witness ==
    /\ req[1].op = "conversation"
    /\ req[1].trace = <<"restore", "archive", "restore">>
    /\ req[1].response.detail = ""
    /\ req[1].conversation.status = "active"

\* ---- C19 ------------------------------------------------------------------------------
\* C19: each add_message() call raises message_count by one and sets last_message_at
\* to the time of the call, never earlier than it was; no other method changes
\* message_count, so after n calls on a new conversation message_count is n.
C19_AddMessageCounts ==
    [][\A p \in Procs :
          LET c == req[p].conversation
              d == req'[p].conversation
          IN  /\ call_add_message(p)
                    => /\ d.message_count = c.message_count + 1
                       /\ d.last_message_at = clock
                       /\ d.last_message_at >= c.last_message_at
              /\ req'[p].op = "conversation"
                    => d.message_count = Count(req'[p].trace, "add_message")]_vars

C19_Witness ==
    /\ req[1].op = "conversation"
    /\ req[1].trace = <<"add_message", "add_message", "add_message">>
    /\ req[1].conversation.message_count = 3
    /\ req[1].conversation.last_message_at = 2
    /\ req[1].conversation.created_at = 0

\* ---- C20 ------------------------------------------------------------------------------
Blocked(m) == "blocked" \in DOMAIN m.safety_flags /\ m.safety_flags["blocked"] = "True"

\* C20: is_safe() is false iff safety_flags["blocked"] is true or topic_tier is tier_4,
\* whatever else safety_flags holds, and true for an unclassified message without flags.
C20_IsSafe ==
    \A p \in Procs :
       req[p].op = "message" =>
          LET m == req[p].message
          IN  /\ ~is_safe(m) <=> (Blocked(m) \/ m.topic_tier = "tier_4")
              /\ (m.topic_tier = NoTier /\ m.safety_flags = NoFlags) => is_safe(m)

\* ---- C15 ------------------------------------------------------------------------------
\* C15: DELETE of a stored conversation answers 204 and leaves no row with its id and
\* no message row with its id; DELETE of an id with no row answers 404 and changes
\* nothing; an id that was handed out and has no row stays without one, so GET and
\* a second DELETE answer 404.
C15_HardDelete ==
    [][/\ \A cid \in ConvIds :
             delete_conversation(1, cid) =>
                IF ConvExists(cid)
                THEN /\ last'.response.status = 204
                     /\ \A c \in conversations' : c.id # cid
                     /\ \A m \in messages' : m.conversation_id # cid
                     /\ UNCHANGED <<classification_queue, usage_events>>
                ELSE /\ last'.response.status = 404
                     /\ StoreUnchanged
       /\ \A cid \in ConvIds :
             (get_conversation(1, cid) /\ ~ConvExists(cid)) =>
                /\ last'.response.status = 404
                /\ StoreUnchanged
       /\ \A cid \in ConvIds :
             (cid <= uuid.conv /\ ~ConvExists(cid)) =>
                /\ \A c \in conversations' : c.id # cid
                /\ \A m \in messages' : m.conversation_id # cid]_vars

C15_Witness ==
    /\ last.op = "delete_conversation"
    /\ last.response.status = 404
    /\ uuid = [conv |-> 1, msg |-> 2]
    /\ conversations = {}
    /\ messages = {}

\* ---- C16 ------------------------------------------------------------------------------
\* C16: the token-usage step is taken only for an assistant message with
\* total_tokens > 0; it sends a token_usage event with that total_tokens (when the
\* usage service accepts it) and pushes no classification job; a job is pushed only
\* for a user message, and every job in the queue whose message is stored refers to a
\* user message.
C16_AssistantTokenUsage ==
    [][/\ \A p \in Procs, ok \in BOOLEAN :
             create_message_token_usage(p, ok) =>
                /\ req[p].message.role = "assistant"
                /\ OrInt(req[p].request_data.total_tokens, 0) > 0
                /\ UNCHANGED classification_queue
                /\ ok => /\ Len(usage_events') = Len(usage_events) + 1
                         /\ usage_events'[Len(usage_events')].event_type = "token_usage"
                         /\ usage_events'[Len(usage_events')].total_tokens
                               = req[p].request_data.total_tokens[1]
                /\ last'.response.status = 201
                /\ ~Has(last'.trace, "classify")
                /\ ~Has(last'.trace, "usage")
       /\ \A p \in Procs, ok \in BOOLEAN :
             create_message_classify(p, ok) => req[p].message.role = "user"
       /\ (last'.op = "create_message" /\ last'.response.status = 201
              /\ last'.request_data.role = "assistant"
              /\ OrInt(last'.request_data.total_tokens, 0) > 0)
             => Has(last'.trace, "token_usage") \/ Has(last'.trace, "token_usage_failed")
       /\ \A i \in 1..Len(classification_queue') : \A m \in messages' :
             m.id = classification_queue'[i].message_id => m.role = "user"]_vars

C16_Witness ==
    /\ last.op = "create_message"
    /\ last.request_data.role = "assistant"
    /\ last.request_data.total_tokens = <<150>>
    /\ last.response.status = 201
    /\ usage_events # << >>
    /\ usage_events[Len(usage_events)].event_type = "token_usage"
    /\ usage_events[Len(usage_events)].total_tokens = 150
    /\ classification_queue = << >>

\* ---- C17 ------------------------------------------------------------------------------
ClassifyAttempts(f) == Count(f.trace, "classify") + Count(f.trace, "classify_failed")

UsageAttempts(f) ==
    Count(f.trace, "usage") + Count(f.trace, "usage_failed")
        + Count(f.trace, "token_usage") + Count(f.trace, "token_usage_failed")

\* C17: no two jobs in the classification queue carry the same message id; an append
\* makes at most one publish attempt and at most one usage attempt, and after a
\* failed attempt it has moved on; there are never more jobs or usage events than
\* persisted messages.
C17_AtMostOnce ==
    /\ \A i, j \in 1..Len(classification_queue) :
          classification_queue[i].message_id = classification_queue[j].message_id => i = j
    /\ Len(classification_queue) <= uuid.msg
    /\ Len(usage_events) <= uuid.msg
    /\ \A f \in Appends :
          /\ ClassifyAttempts(f) <= 1
          /\ UsageAttempts(f) <= 1
          /\ Has(f.trace, "classify_failed") => f.pc \in {"usage", "done"}
          /\ (Has(f.trace, "usage_failed") \/ Has(f.trace, "token_usage_failed")) => f.pc = "done"

C17_Witness ==
    /\ Len(classification_queue) = 2
    /\ classification_queue[1].message_id # classification_queue[2].message_id
    /\ Len(usage_events) = 2
    /\ \A p \in Procs : Ready(p)

\* ---- C18 ------------------------------------------------------------------------------
\* C18: whether the classification publish succeeds or fails, the handler goes on to
\* the usage call; whether the usage call succeeds or fails, the classification queue
\* is left as it was; a user append answered 201 has made one attempt of each.
C18_DispatchesIndependent ==
    [][/\ \A p \in Procs, ok \in BOOLEAN :
             create_message_classify(p, ok) =>
                /\ req'[p].pc = "usage"
                /\ req'[p].message = req[p].message
                /\ UNCHANGED usage_events
       /\ \A p \in Procs, ok \in BOOLEAN :
             create_message_usage(p, ok) =>
                /\ UNCHANGED classification_queue
                /\ Len(usage_events') = Len(usage_events) + (IF ok THEN 1 ELSE 0)
       /\ (last'.op = "create_message" /\ last'.request_data.role = "user"
              /\ last'.response.status = 201)
             => ClassifyAttempts(last') = 1 /\ UsageAttempts(last') = 1]_vars

C18_Witness ==
    /\ last.op = "create_message"
    /\ last.trace = <<"load", "guard", "persist", "add_message", "update", "classify_failed", "usage">>
    /\ classification_queue = << >>
    /\ Len(usage_events) = 1
    /\ usage_events[1].event_type = "message_record"

\* ---- C21 ------------------------------------------------------------------------------
\* C21: mark_as_blocked(reason) leaves safety_flags["blocked"] true, block_reason equal
\* to reason, topic_tier tier_4, is_safe() false and needs_approval() false; once it
\* was called is_safe() stays false, whatever tier set_topic_classification sets later.
C21_MarkAsBlocked ==
    /\ [][\A p \in Procs, reason \in ReasonInputs :
             call_mark_as_blocked(p, reason) =>
                LET m == req'[p].message
                IN  /\ Blocked(m)
                    /\ "block_reason" \in DOMAIN m.safety_flags
                    /\ m.safety_flags["block_reason"] = reason
                    /\ m.topic_tier = "tier_4"
                    /\ ~is_safe(m)
                    /\ ~needs_approval(m)]_vars
    /\ [](\A p \in Procs :
             (req[p].op = "message" /\ Has(req[p].trace, "mark_as_blocked"))
                => ~is_safe(req[p].message))

C21_Witness ==
    /\ req[1].op = "message"
    /\ req[1].trace = <<"mark_as_blocked", "set_topic_classification">>
    /\ req[1].message.topic_tier = "tier_1"
    /\ req[1].message.safety_flags["block_reason"] = "violence"
    /\ ~is_safe(req[1].message)

\* ---- C22 ------------------------------------------------------------------------------
\* C22: needs_approval() is true for tier_2 and tier_3 and false for tier_1, tier_4
\* and an unset tier, whatever safety_flags holds.
C22_NeedsApproval ==
    \A p \in Procs :
       req[p].op = "message" =>
          LET m == req[p].message
          IN  /\ m.topic_tier \in {"tier_2", "tier_3"} => needs_approval(m)
              /\ m.topic_tier \in {"tier_1", "tier_4", NoTier} => ~needs_approval(m)
              /\ m.topic_tier \in TopicTiers \cup {NoTier}

C22_Witness ==
    /\ req[1].op = "message"
    /\ req[1].trace = <<"mark_as_blocked", "set_topic_classification">>
    /\ req[1].message.topic_tier = "tier_2"
    /\ Blocked(req[1].message)
    /\ needs_approval(req[1].message)

\* ---- C23 ------------------------------------------------------------------------------
NonBlank(title) == {i \in 1..Len(title) : title[i] \notin Whitespace}

\* the text between the first and the last character that is not whitespace
Trimmed(title) ==
    IF NonBlank(title) = {} THEN << >>
    ELSE LET lo == CHOOSE i \in NonBlank(title) : \A j \in NonBlank(title) : i <= j
             hi == CHOOSE i \in NonBlank(title) : \A j \in NonBlank(title) : i >= j
         IN  [i \in 1..(hi - lo + 1) |-> title[lo + i - 1]]

FirstChars(s, n) == [i \in 1..(IF Len(s) < n THEN Len(s) ELSE n) |-> s[i]]

\* C23: set_title raises and leaves title and updated_at as they were when the text is
\* empty or whitespace only; otherwise it returns with the title equal to the first
\* 200 characters of the trimmed text (all of it when shorter).
C23_SetTitle ==
    [][\A p \in Procs, title \in TitleInputs :
          call_set_title(p, title) =>
             LET c == req[p].conversation
                 d == req'[p].conversation
             IN  IF NonBlank(title) = {}
                 THEN /\ req'[p].response.detail # ""
                      /\ d.title = c.title
                      /\ d.updated_at = c.updated_at
                 ELSE /\ req'[p].response.detail = ""
                      /\ d.title = FirstChars(Trimmed(title), 200)
                      /\ Len(d.title) <= 200]_vars

C23_Witness ==
    /\ req[1].op = "conversation"
    /\ req[1].trace = <<"set_title">>
    /\ req[1].response.detail = ""
    /\ Len(req[1].conversation.title) = 200
    /\ req[1].conversation.title[1] = "a"
    /\ Len(Trimmed(LongTitle)) > 200

\* ---- C24 ------------------------------------------------------------------------------
\* C24: every stored conversation's title is non-blank, trimmed and at most 200
\* characters long, after any sequence of POST /conversations (with any title)
\* and PATCH requests.
C24_TitleWellFormed ==
    \A c \in conversations :
       /\ NonBlank(c.title) # {}
       /\ c.title = Trimmed(c.title)
       /\ Len(c.title) <= 200

\* ---- C25 ------------------------------------------------------------------------------
\* C25: a PATCH of a stored conversation whose status string is none of active,
\* archived, deleted is answered 400 at once and leaves the stored conversation
\* unchanged.
C25_UnknownStatusRejected ==
    [][\A cid \in ConvIds, data \in WidePatchInputs :
          (/\ data.status \notin KnownStatus \cup {""}
           /\ ConvExists(cid)
           /\ update_conversation_load(1, cid, data))
             => /\ req'[1] = Idle
                /\ last'.response.status = 400
                /\ UNCHANGED conversations]_vars

\* ---- C26 ------------------------------------------------------------------------------
\* C26: when the conversation update of a PATCH finds no row with the target id,
\* because a concurrent DELETE removed it after the handler loaded it, the PATCH is
\* answered 404.
C26_MissingRowIs404 ==
    [][\A p \in Procs :
          (/\ update_conversation_update(p, TRUE)
           /\ ~ConvExists(req[p].conversation_id))
             => last'.response.status = 404]_vars

\* ---- C27 ------------------------------------------------------------------------------
OutOfRange(data) == data.topic_tier # NoInt /\ data.topic_tier[1] \notin 1..4

C28_StallTimesOut ==
    \A p \in Procs :
       (req[p].op = "create_message" /\ Stalled(p)) ~> (req[p].pc = "idle")

\* ---- C29 ------------------------------------------------------------------------------
\* the dispatch attempts an append owes its message were all made
DispatchMade(f) ==
    IF f.request_data.role = "user"
    THEN ClassifyAttempts(f) = 1 /\ UsageAttempts(f) = 1
    ELSE UsageAttempts(f) = 1

\* C29: once the conversation update of an append has succeeded and dispatch is
\* due, the dispatch attempts for that message are eventually made, even if the
\* request is cancelled before the dispatch starts.
C29_DispatchSurvivesCancel ==
    \A p \in Procs, id \in 1..MaxMsgs :
       (/\ req[p].op = "create_message"
        /\ req[p].pc \in {"classify", "token_usage"}
        /\ req[p].message.id = id)
          ~> (\E f \in Frames : f.op = "create_message" /\ f.message.id = id /\ DispatchMade(f))

\* ---- C30 ------------------------------------------------------------------------------
RowsOf(cid) == {m \in messages : m.conversation_id = cid}

\* C30: a listing answers with stored messages of the conversation asked for, none
\* twice, in ascending created_at order whatever the order of insertion; it holds
\* the rows at positions offset+1 .. offset+limit of that order, as many as exist.
C30_ListingOrdered ==
    [][(/\ last'.op = "get_conversation_messages"
        /\ get_conversation_messages(1, last'.conversation_id, last'.request_data.limit,
                                     last'.request_data.offset, TRUE)) =>
             LET items == last'.response.body.items
                 cid == last'.conversation_id
                 limit == last'.request_data.limit
                 offset == last'.request_data.offset
                 n == Cardinality(RowsOf(cid))
                 rest == IF n > offset THEN n - offset ELSE 0
             IN  /\ last'.response.status = 200
                 /\ \A k \in 1..Len(items) : items[k] \in RowsOf(cid)
                 /\ \A i, j \in 1..Len(items) :
                       i < j => (items[i] # items[j] /\ items[i].created_at <= items[j].created_at)
                 /\ Len(items) = IF limit < rest THEN limit ELSE rest
                 /\ \A k \in 1..Len(items) :
                       /\ Cardinality({m \in RowsOf(cid) : m.created_at < items[k].created_at})
                             <= offset + k - 1
                       /\ Cardinality({m \in RowsOf(cid) : m.created_at <= items[k].created_at})
                             >= offset + k
                 /\ UNCHANGED messages]_vars

C30_Witness ==
    /\ last.op = "get_conversation_messages"
    /\ last.response.status = 200
    /\ last.request_data.offset = 1
    /\ last.request_data.limit = 1
    /\ Cardinality(RowsOf(last.conversation_id)) = 3
    /\ Len(last.response.body.items) = 1
    /\ last.response.body.items[1].id = 1
    /\ \E m \in RowsOf(last.conversation_id) :
          m.id = 3 /\ m.created_at < last.response.body.items[1].created_at
    /\ \E m \in RowsOf(last.conversation_id) :
          m.id = 2 /\ m.created_at > last.response.body.items[1].created_at

\* ---- C31 ------------------------------------------------------------------------------
\* the rows a listing for teen_id with the status filter may show
Matching(teen_id, status) ==
    {c \in conversations : c.teen_id = teen_id /\ (status = "" \/ c.status = status)}

\* a comes strictly before b: a has a last message and b none, or a's last message
\* is later, or they are level there and a was created later
Earlier(a, b) ==
    \/ a.last_message_at # NoTime /\ b.last_message_at = NoTime
    \/ a.last_message_at # NoTime /\ b.last_message_at # NoTime
          /\ a.last_message_at > b.last_message_at
    \/ a.last_message_at = b.last_message_at /\ a.created_at > b.created_at

\* C31: a listing for a teen answers with conversations of that teen that match
\* the status filter, none twice, by last_message_at descending with those without
\* one last and ties by created_at descending; it holds the rows at positions
\* offset+1 .. offset+limit of that order, as many as exist.
C31_TeenListingOrdered ==
    [][(/\ last'.op = "get_teen_conversations"
        /\ get_teen_conversations(1, last'.request_data.teen_id, last'.request_data.status,
                                  last'.request_data.limit, last'.request_data.offset, TRUE)
        /\ last'.response.status # 400) =>
             LET items == last'.response.body.items
                 rows == Matching(last'.request_data.teen_id, last'.request_data.status)
                 limit == last'.request_data.limit
                 offset == last'.request_data.offset
                 n == Cardinality(rows)
                 rest == IF n > offset THEN n - offset ELSE 0
             IN  /\ last'.response.status = 200
                 /\ \A k \in 1..Len(items) : items[k] \in rows
                 /\ \A i, j \in 1..Len(items) :
                       i < j => (items[i] # items[j] /\ ~Earlier(items[j], items[i]))
                 /\ Len(items) = IF limit < rest THEN limit ELSE rest
                 /\ \A k \in 1..Len(items) :
                       /\ Cardinality({c \in rows : Earlier(c, items[k])}) <= offset + k - 1
                       /\ Cardinality({c \in rows : ~Earlier(items[k], c)}) >= offset + k
                 /\ UNCHANGED conversations]_vars

C31_Witness ==
    /\ last.op = "get_teen_conversations"
    /\ last.response.status = 200
    /\ last.request_data.status = "active"
    /\ last.request_data.offset = 1
    /\ Len(last.response.body.items) = 1
    /\ last.response.body.items[1].last_message_at = NoTime
    /\ \E c \in conversations :
          /\ c.teen_id = last.request_data.teen_id
          /\ c.status = "archived"
    /\ \E c \in conversations :
          /\ c.teen_id = last.request_data.teen_id
          /\ c.status = "active"
          /\ c.last_message_at # NoTime

\* ---- C32 ------------------------------------------------------------------------------
\* C32: the committed conversation update of an append changes only message_count,
\* last_message_at and updated_at of the stored row; the title and the status that
\* are stored when it commits, a concurrent PATCH's included, stay as they are.
C32_AppendKeepsTitleAndStatus ==
    [][\A p \in Procs :
          UpdateOk(p) =>
             LET c == Stored(req[p].conversation_id)
                 d == CHOOSE r \in conversations' : r.id = c.id
             IN  /\ \E r \in conversations' : r.id = c.id
                 /\ d.teen_id = c.teen_id
                 /\ d.created_at = c.created_at
                 /\ d.title = c.title
                 /\ d.status = c.status]_vars

\* ---- C33 ------------------------------------------------------------------------------
\* the PATCH frame a step has returned or moved on
Patched == IF req'[1] = Idle THEN last' ELSE req'[1]

\* C33: a PATCH that is answered 400 leaves every stored row as it was; a PATCH of a
\* conversation stored as deleted that carries a usable title and asks for archived
\* or active is answered 400 at once and stores nothing of it, the title included.
C33_RejectedPatchStoresNothing ==
    /\ [][(/\ last'.op = "update_conversation"
           /\ last'.response.status = 400
           /\ req'[1] = Idle
           /\ clock' = clock
           /\ \/ update_conversation_load(1, last'.conversation_id, last'.request_data)
              \/ update_conversation_update(1, TRUE))
             => UNCHANGED <<conversations, messages>>]_vars
    /\ [][(/\ Patched.op = "update_conversation"
           /\ clock' = clock
           /\ ConvExists(Patched.conversation_id)
           /\ Stored(Patched.conversation_id).status = "deleted"
           /\ Patched.request_data.status \in {"archived", "active"}
           /\ NonBlank(Patched.request_data.title) # {}
           /\ update_conversation_load(1, Patched.conversation_id, Patched.request_data))
             => /\ req'[1] = Idle
                /\ last'.response.status = 400
                /\ UNCHANGED <<conversations, messages>>]_vars

C33_Witness ==
    /\ last.op = "update_conversation"
    /\ last.response.status = 400
    /\ last.request_data.title = <<" ", "H", "i", " ">>
    /\ last.request_data.status = "archived"
    /\ ConvExists(last.conversation_id)
    /\ Stored(last.conversation_id).status = "deleted"
    /\ Stored(last.conversation_id).title = DefaultTitle

\* ---- C34 ------------------------------------------------------------------------------
\* C34: every stored message carries the id of a stored conversation, whatever the
\* interleaving of appends and DELETEs.
C34_NoOrphanMessage ==
    \A m \in messages : \E c \in conversations : c.id = m.conversation_id

\* an append loaded the conversation, a DELETE then removed it, and the insert of
\* the append was refused
C34_Witness ==
    /\ last.op = "create_message"
    /\ Loaded(last)
    /\ ~Has(last.trace, "persist")
    /\ last.response.status = 500
    /\ ~ConvExists(last.conversation_id)
    /\ \E p \in Procs : req[p] = Idle /\ uuid.conv = 1
    /\ messages = {}

\* ---- C35 ------------------------------------------------------------------------------
\* C35: a PATCH with status deleted on a stored conversation is answered 200 and
\* leaves the row in the store with status deleted and its message rows and count as
\* they were; on a row stored as deleted GET answers 200 with it, an append is
\* answered 400 and a PATCH to active or archived is answered 400, each storing
\* nothing; a conversation row or a message row leaves the store only in a DELETE.
C35_SoftDelete ==
    [][/\ (/\ req[1].op = "update_conversation"
           /\ req[1].request_data.status = "deleted"
           /\ ConvExists(req[1].conversation_id)
           /\ update_conversation_update(1, TRUE))
             => LET c == Stored(req[1].conversation_id)
                IN  /\ last'.response.status = 200
                    /\ \E d \in conversations' :
                          /\ d.id = c.id
                          /\ d.status = "deleted"
                          /\ d.message_count = c.message_count
                          /\ d.title = c.title
                    /\ Cardinality(conversations') = Cardinality(conversations)
                    /\ UNCHANGED messages
       /\ \A cid \in ConvIds :
             (ConvExists(cid) /\ Stored(cid).status = "deleted") =>
                /\ get_conversation(1, cid)
                      => /\ last'.response.status = 200
                         /\ last'.response.body = Stored(cid)
                /\ \A data \in MessageInputs :
                      create_message_load(1, cid, data)
                         => /\ req'[1] = Idle
                            /\ last'.response.status = 400
                            /\ StoreUnchanged
                /\ \A data \in PatchInputs :
                      (data.status \in {"active", "archived"} /\ update_conversation_load(1, cid, data))
                         => /\ req'[1] = Idle
                            /\ last'.response.status = 400
                            /\ StoreUnchanged
       /\ (conversations \ conversations' # {} /\ Cardinality(conversations') < Cardinality(conversations))
             => \E cid \in ConvIds : delete_conversation(1, cid)
       /\ ~(messages \subseteq messages')
             => \E cid \in ConvIds : delete_conversation(1, cid)]_vars

C35_Witness ==
    /\ last.op = "create_message"
    /\ last.response.status = 400
    /\ ConvExists(last.conversation_id)
    /\ Stored(last.conversation_id).status = "deleted"
    /\ Stored(last.conversation_id).message_count = 1
    /\ count_by_conversation_id(last.conversation_id) = 1

\* ---- C36 ------------------------------------------------------------------------------
\* C36: when the usage service answers, the guard step rejects the user append with
\* 429 iff the answer is a 200 with messages_sent >= 100; the limit is always 100;
\* an answer that is not a 200 counts as messages_sent = 0 and lets the append on
\* to persistence; only a user append is ever answered 429.
C36_LimitIsHundred ==
    [][/\ \A answer \in WideUsageAnswers :
             (answer.kind = "response" /\ create_message_guard(1, answer)) =>
                LET rejected == req'[1] = Idle /\ last'.response.status = 429
                    f == IF req'[1] = Idle THEN last' ELSE req'[1]
                IN  /\ rejected <=> (answer.status_code = 200 /\ answer.messages_sent >= 100)
                    /\ ~rejected => (req'[1].op = "create_message" /\ req'[1].pc = "persist")
                    /\ f.limit_check.messages_limit = 100
                    /\ f.limit_check.messages_sent =
                          IF answer.status_code = 200 THEN answer.messages_sent ELSE 0
                    /\ StoreUnchanged
       /\ last'.response.status = 429
             => /\ last'.op = "create_message"
                /\ last'.request_data.role = "user"
                /\ last'.response.args[1] >= 100
                /\ last'.response.args[2] = 100]_vars

C36_Witness ==
    /\ last.op = "create_message"
    /\ last.request_data.role = "user"
    /\ last.response.status = 429
    /\ last.response.args = <<101, 100>>
    /\ \E m \in messages : m.role = "user"

\* ---- C37 ------------------------------------------------------------------------------
\* the append of the given role that process 1 is carrying out
RoleFrame(role) == req[1].op = "create_message" /\ req[1].request_data.role = role

\* C37: an append with role system to an active conversation goes from the load
\* straight to persistence; when its row and its conversation update are committed
\* it is answered 201 with message_count raised by one and last_message_at set to
\* the time of the update; at no step does it call the limit guard, push a
\* classification job or send a usage event, whatever token fields it carries.
C37_SystemAppendNoSideCalls ==
    [][/\ (Ready(1) /\ req'[1].op = "create_message" /\ req'[1].request_data.role = "system"
              /\ Stored(req'[1].conversation_id).status = "active")
             => (req'[1].pc = "persist" /\ req'[1].limit_check = NoCheck)
       /\ RoleFrame("system") =>
             /\ UNCHANGED <<classification_queue, usage_events>>
             /\ req[1].pc \in {"persist", "update"}
             /\ LET f == IF req'[1] = Idle THEN last' ELSE req'[1]
                IN  ~GuardCalled(f) /\ \A i \in 1..Len(f.trace) : f.trace[i] \notin Dispatches
       /\ (RoleFrame("system") /\ UpdateOk(1)) =>
             LET c == Stored(req[1].conversation_id)
                 d == CHOOSE r \in conversations' : r.id = c.id
             IN  /\ req'[1] = Idle
                 /\ last'.response.status = 201
                 /\ last'.message \in messages
                 /\ last'.message.role = "system"
                 /\ d.message_count = c.message_count + 1
                 /\ d.last_message_at = clock
                 /\ d.updated_at = clock]_vars

C37_Witness ==
    /\ last.op = "create_message"
    /\ last.request_data.role = "system"
    /\ last.request_data.total_tokens = <<150>>
    /\ last.response.status = 201
    /\ last.trace = <<"load", "persist", "add_message", "update">>
    /\ Stored(last.conversation_id).message_count = 1
    /\ Stored(last.conversation_id).last_message_at = 1
    /\ classification_queue = << >>
    /\ usage_events = << >>

\* ---- C38 ------------------------------------------------------------------------------
\* an optional field of the body that was sent
Given(x) == x # << >>

\* C38: an assistant append whose total_tokens is absent or 0 is answered once its
\* conversation update is committed, and no step of it sends a usage event or
\* pushes a classification job; with total_tokens >= 1 the handler goes on to the
\* token-usage call, whose event carries that total_tokens, the provider and model
\* of the body or "unknown" when absent, and the input and output token counts of
\* the body or 0 when absent; every token-usage event sent has total_tokens >= 1.
C38_TokenUsageOnlyWithTokens ==
    [][/\ RoleFrame("assistant") =>
             LET data == req[1].request_data
                 f == IF req'[1] = Idle THEN last' ELSE req'[1]
             IN  /\ UNCHANGED classification_queue
                 /\ ~GuardCalled(f)
                 /\ \A name \in {"classify", "classify_failed", "usage", "usage_failed"} :
                       ~Has(f.trace, name)
                 /\ (~Given(data.total_tokens) \/ data.total_tokens[1] = 0) =>
                       /\ UNCHANGED usage_events
                       /\ req[1].pc \in {"persist", "update"}
                       /\ UpdateOk(1) => (req'[1] = Idle /\ last'.response.status = 201)
                 /\ (Given(data.total_tokens) /\ data.total_tokens[1] >= 1 /\ UpdateOk(1)) =>
                       req'[1].pc = "token_usage"
                 /\ create_message_token_usage(1, TRUE) =>
                       /\ Len(usage_events') = Len(usage_events) + 1
                       /\ LET e == usage_events'[Len(usage_events')]
                          IN  /\ e.event_type = "token_usage"
                              /\ e.user_id = req[1].conversation.teen_id
                              /\ e.total_tokens = data.total_tokens[1]
                              /\ ~Given(data.provider) => e.provider = "unknown"
                              /\ (Given(data.provider) /\ data.provider[1] # "")
                                    => e.provider = data.provider[1]
                              /\ ~Given(data.model) => e.model = "unknown"
                              /\ Given(data.model) => e.model = data.model[1]
                              /\ ~Given(data.input_tokens) => e.input_tokens = 0
                              /\ Given(data.input_tokens) => e.input_tokens = data.input_tokens[1]
                              /\ ~Given(data.output_tokens) => e.output_tokens = 0
                              /\ Given(data.output_tokens) => e.output_tokens = data.output_tokens[1]
                       /\ last'.response.status = 201
                 /\ create_message_token_usage(1, FALSE) =>
                       (UNCHANGED usage_events /\ last'.response.status = 201)
       /\ \A i \in 1..Len(usage_events') :
             usage_events'[i].event_type = "token_usage" => usage_events'[i].total_tokens >= 1]_vars

C38_Witness ==
    /\ Cardinality({m \in messages : m.role = "assistant"}) = 2
    /\ last.op = "create_message"
    /\ last.request_data.role = "assistant"
    /\ last.request_data.total_tokens = <<0>>
    /\ last.response.status = 201
    /\ last.trace = <<"load", "persist", "add_message", "update">>
    /\ Len(usage_events) = 1
    /\ usage_events[1].event_type = "token_usage"
    /\ usage_events[1].total_tokens = 1
    /\ usage_events[1].provider = "unknown"
    /\ usage_events[1].model = "gpt-4o"
    /\ usage_events[1].input_tokens = 0
    /\ usage_events[1].output_tokens = 50
    /\ classification_queue = << >>

\* ---- C39 ------------------------------------------------------------------------------
\* C39: a call of add_message, set_title, archive, restore or delete that returns
\* leaves updated_at equal to the current time, and a call that raises leaves the
\* conversation, updated_at included, as it was; so from one step to the next
\* updated_at never decreases, and last_message_at, once set, is never later than
\* updated_at.
C39_UpdatedAtRefreshed ==
    [][req[1].op = "conversation" =>
          LET c == req[1].conversation
              d == req'[1].conversation
              called == Len(req'[1].trace) = Len(req[1].trace) + 1
              error == req'[1].response.detail
          IN  /\ (called /\ error = "") => d.updated_at = clock
              /\ (called /\ error # "") => d = c
              /\ ~called => d = c
              /\ d.updated_at >= c.updated_at
              /\ d.updated_at <= clock'
              /\ d.last_message_at # NoTime => d.last_message_at <= d.updated_at]_vars

C39_Witness ==
    /\ req[1].op = "conversation"
    /\ req[1].trace = <<"add_message", "delete", "archive">>
    /\ req[1].response.detail = "Cannot archive a deleted conversation"
    /\ req[1].conversation.last_message_at = 1
    /\ req[1].conversation.updated_at = 2
    /\ clock = 2

====
